---- MODULE Spec2Model ----
(***************************************************************************)
(* A model of the QE-ZK core (src/qezk): gate algebra, entanglement       *)
(* source, witness encoder, Bell measurement, the CHSH statistic and the  *)
(* four-phase protocol orchestrator QuantumEntanglementZK.                 *)
(*                                                                         *)
(* Amplitudes are kept exactly.  Every matrix entry of the source is an    *)
(* element of Z[w] (w = exp(i*pi/4)) divided by a power of sqrt(2), so an  *)
(* amplitude is a 4-tuple <<a,b,c,d>> standing for a + b*w + c*w^2 + d*w^3 *)
(* and a state carries the exponent k of the common divisor sqrt(2)^k.     *)
(* Rationals (CHSH value, threshold) are records [num, den] with den > 0.  *)
(***************************************************************************)
EXTENDS Integers, Sequences, FiniteSets, TLC

(***************************************************************************)
(* Bounds of the model.                                                    *)
(***************************************************************************)
\* largest num_epr_pairs a protocol object of the main specification has
MaxPairs == 2
\* longest sequences of arbitrary (also invalid) entries passed to verify()
MaxAnyLen == 2
\* longest valid result sequences passed to verify()
MaxVerifyLen == 10
\* longest sequences over the whole input alphabet passed to chsh_inequality_test
MaxFullLen == 2
\* longest sequences over bases Z, X passed to chsh_inequality_test
MaxChshLen == 4

(***************************************************************************)
(* Python values.  A value carries its type so that the isinstance checks  *)
(* of the source are decided by the model, not assumed.                    *)
(***************************************************************************)
PyStr(s) == [type |-> "str", val |-> s]
PyNoneStr == [type |-> "NoneType", val |-> ""]
PyWit(w) == [type |-> "str", val |-> w]
PyNoneWit == [type |-> "NoneType", val |-> <<>>]
PyInt(n) == [type |-> "int", val |-> n]
PyNoneInt == [type |-> "NoneType", val |-> 0]
PyStrSeed == [type |-> "str", val |-> 0]

Min(a, b) == IF a <= b THEN a ELSE b
Pow2(k) == 2 ^ k

(***************************************************************************)
(* Complex arithmetic of numpy on the amplitudes that occur (exact).       *)
(***************************************************************************)
RZero == <<0, 0, 0, 0>>
ROne == <<1, 0, 0, 0>>
RImag == <<0, 0, 1, 0>>
ROmega == <<0, 1, 0, 0>>

RAdd(x, y) == <<x[1] + y[1], x[2] + y[2], x[3] + y[3], x[4] + y[4]>>
RNeg(x) == <<0 - x[1], 0 - x[2], 0 - x[3], 0 - x[4]>>
RMul(x, y) ==
  << x[1] * y[1] - x[2] * y[4] - x[3] * y[3] - x[4] * y[2],
     x[1] * y[2] + x[2] * y[1] - x[3] * y[4] - x[4] * y[3],
     x[1] * y[3] + x[2] * y[2] + x[3] * y[1] - x[4] * y[4],
     x[1] * y[4] + x[2] * y[3] + x[3] * y[2] + x[4] * y[1] >>

\* np.abs(z)**2 of an amplitude numerator: p + q*sqrt(2)
AbsSq(z) ==
  [p |-> z[1] * z[1] + z[2] * z[2] + z[3] * z[3] + z[4] * z[4],
   q |-> z[1] * z[2] + z[2] * z[3] + z[3] * z[4] - z[4] * z[1]]

(***************************************************************************)
(* QuantumStatePreparation: the gates, Bell states, apply_gate.            *)
(***************************************************************************)
GateH == [m |-> <<<<ROne, ROne>>, <<ROne, RNeg(ROne)>>>>, k |-> 1]
GateX == [m |-> <<<<RZero, ROne>>, <<ROne, RZero>>>>, k |-> 0]
GateY == [m |-> <<<<RZero, RNeg(RImag)>>, <<RImag, RZero>>>>, k |-> 0]
GateZ == [m |-> <<<<ROne, RZero>>, <<RZero, RNeg(ROne)>>>>, k |-> 0]
GateI == [m |-> <<<<ROne, RZero>>, <<RZero, ROne>>>>, k |-> 0]
GateS == [m |-> <<<<ROne, RZero>>, <<RZero, RImag>>>>, k |-> 0]
GateT == [m |-> <<<<ROne, RZero>>, <<RZero, ROmega>>>>, k |-> 0]

\* np.kron(gate, I) @ state: the gate acts on the high bit of the index
KronGateI(g, st) ==
  [v |-> [idx \in 1..4 |->
            LET a == (idx - 1) \div 2
                b == (idx - 1) % 2
            IN RAdd(RMul(g.m[a + 1][1], st.v[b + 1]),
                    RMul(g.m[a + 1][2], st.v[2 + b + 1]))],
   k |-> st.k + g.k]

\* np.kron(I, gate) @ state: the gate acts on the low bit of the index
KronIGate(g, st) ==
  [v |-> [idx \in 1..4 |->
            LET a == (idx - 1) \div 2
                b == (idx - 1) % 2
            IN RAdd(RMul(g.m[b + 1][1], st.v[2 * a + 1]),
                    RMul(g.m[b + 1][2], st.v[2 * a + 2]))],
   k |-> st.k + g.k]

\* a CNOT that leaves the state as it is
ApplyCNOTIdentity(st) == st

\* CNOT @ state
ApplyCNOT(st) == [v |-> <<st.v[1], st.v[2], st.v[4], st.v[3]>>, k |-> st.k]

StateTypes == {"phi_plus", "phi_minus", "psi_plus", "psi_minus"}

create_bell_state(state_type) ==
  LET s0 == [v |-> <<ROne, RZero, RZero, RZero>>, k |-> 0]
      s1 == KronGateI(GateH, s0)
      s2 == ApplyCNOT(s1)
  IN CASE state_type = "phi_minus" -> KronGateI(GateZ, s2)
       [] state_type = "psi_plus" -> KronGateI(GateX, s2)
       [] state_type = "psi_minus" -> KronGateI(GateY, s2)
       [] OTHER -> s2

apply_gate(state, gate, qubit) ==
  IF qubit = 0 THEN KronGateI(gate, state) ELSE KronIGate(gate, state)

(***************************************************************************)
(* The global numpy generator.  np.random.seed(s) puts the generator in a  *)
(* state that depends on s alone; np.random.random() advances it and       *)
(* returns a number in [0, 1).  The generator is modelled by a full-period *)
(* multiplicative congruential generator on 1..6, the draw being state/7.  *)
(***************************************************************************)
RngStates == 1..6
RngDen == Cardinality(RngStates) + 1
RngSeedState(seed) == (seed % Cardinality(RngStates)) + 1
RngNext(s) == (3 * s) % RngDen

(***************************************************************************)
(* BellMeasurement.measure                                                 *)
(***************************************************************************)
x_basis == GateH
y_basis == [m |-> <<<<ROne, RImag>>, <<ROne, RNeg(RImag)>>>>, k |-> 1]

\* a prob_0 for "both qubits equal": |t[0]|^2 + |t[3]|^2
Prob0BothQubits(t) ==
  [p |-> AbsSq(t.v[1]).p + AbsSq(t.v[4]).p,
   q |-> AbsSq(t.v[1]).q + AbsSq(t.v[4]).q,
   k |-> t.k]

\* |t[0]|^2 + |t[2]|^2 as (p + q*sqrt(2)) / 2^k
Prob0(t) ==
  [p |-> AbsSq(t.v[1]).p + AbsSq(t.v[3]).p,
   q |-> AbsSq(t.v[1]).q + AbsSq(t.v[3]).q,
   k |-> t.k]

\* draw < prob, draw = s / RngDen, prob = (p + q*sqrt(2)) / 2^k
DrawBelow(s, prob) ==
  LET A == s * Pow2(prob.k) - prob.p * RngDen
      B == prob.q * RngDen
  IN IF B >= 0 THEN A < 0 \/ A * A < 2 * B * B
               ELSE A < 0 /\ A * A > 2 * B * B

Bases == {"Z", "X", "Y"}

\* a Y measurement that reads the amplitudes 0 and 1 after its basis change
measure_y_other_pair(state, basis, s) ==
  CASE basis = "Z" -> IF DrawBelow(s, Prob0(state)) THEN 0 ELSE 1
    [] basis = "X" ->
         IF DrawBelow(s, Prob0(KronGateI(x_basis, state))) THEN 0 ELSE 1
    [] basis = "Y" ->
         LET t == KronGateI(y_basis, state)
         IN IF DrawBelow(s, [p |-> AbsSq(t.v[1]).p + AbsSq(t.v[2]).p,
                             q |-> AbsSq(t.v[1]).q + AbsSq(t.v[2]).q,
                             k |-> t.k])
            THEN 0 ELSE 1
    [] OTHER -> -1

\* measure(state, basis) given the generator state the draw comes from;
\* the outcome is -1 when the basis is unknown (ValueError, nothing drawn)
measure(state, basis, s) ==
  CASE basis = "Z" -> IF DrawBelow(s, Prob0(state)) THEN 0 ELSE 1
    [] basis = "X" ->
         IF DrawBelow(s, Prob0(KronGateI(x_basis, state))) THEN 0 ELSE 1
    [] basis = "Y" ->
         IF DrawBelow(s, Prob0(KronGateI(y_basis, state))) THEN 0 ELSE 1
    [] OTHER -> -1

(***************************************************************************)
(* WitnessEncoder                                                          *)
(***************************************************************************)
gate_names == <<"I", "X", "Y", "Z", "H", "S", "T">>

gate_library(name) ==
  CASE name = "I" -> GateI
    [] name = "X" -> GateX
    [] name = "Y" -> GateY
    [] name = "Z" -> GateZ
    [] name = "H" -> GateH
    [] name = "S" -> GateS
    [] name = "T" -> GateT

\* int(bits, 2) as Python reads a string: white space around it is dropped,
\* then a sign, then a prefix 0b or 0B (and one underscore after it) may
\* come, then the digits 0 and 1 with single underscores between digits
IntStripped(bits) ==
  LET inside == {i \in 1..Len(bits) : bits[i] # " "}
  IN IF inside = {} THEN <<>>
     ELSE SubSeq(bits, CHOOSE i \in inside : \A j \in inside : i <= j,
                       CHOOSE i \in inside : \A j \in inside : j <= i)

\* the sign, and what follows it
IntSign(t) ==
  IF Len(t) > 0 /\ t[1] \in {"+", "-"}
  THEN [neg |-> t[1] = "-", rest |-> Tail(t)]
  ELSE [neg |-> FALSE, rest |-> t]

IntSigned(bits) == IntSign(IntStripped(bits))

\* the prefix 0b or 0B is dropped; an underscore may follow a prefix only
IntPrefix(r) ==
  IF Len(r) >= 2 /\ r[1] = "0" /\ r[2] \in {"b", "B"}
  THEN SubSeq(r, 3, Len(r)) ELSE <<"_">> \o r

IntUnderscore(d) == IF Len(d) > 0 /\ d[1] = "_" THEN Tail(d) ELSE d

IntDigits(bits) == IntUnderscore(IntPrefix(IntSigned(bits).rest))

\* digits d after the sign and prefix, r after the sign: not a literal
IntBad(d, r) ==
  \/ Len(d) = 0
  \/ \E i \in 1..Len(d) : d[i] \notin {"0", "1", "_"}
  \/ d[1] = "_"
  \/ d[Len(d)] = "_"
  \/ \E i \in 1..(Len(d) - 1) : d[i] = "_" /\ d[i + 1] = "_"
  \/ Len(r) > 0 /\ r[1] = "_"

\* TRUE when int(bits, 2) raises ValueError
IntRaises(bits) == IntBad(IntDigits(bits), IntSigned(bits).rest)

RECURSIVE BinValue(_)
BinValue(d) ==
  IF d = <<>> THEN 0
  ELSE LET front == SubSeq(d, 1, Len(d) - 1)
       IN IF d[Len(d)] = "_" THEN BinValue(front)
          ELSE 2 * BinValue(front) + (IF d[Len(d)] = "1" THEN 1 ELSE 0)

\* int() reading the group lowest bit first
IntBase2LowFirst(bits) ==
  (IF bits[3] = "1" THEN 4 ELSE 0) + (IF bits[2] = "1" THEN 2 ELSE 0)
  + (IF bits[1] = "1" THEN 1 ELSE 0)

\* the value of int(bits, 2) when it does not raise
IntBase2(bits) ==
  IF IntSigned(bits).neg THEN 0 - BinValue(IntDigits(bits))
  ELSE BinValue(IntDigits(bits))

\* witness[i:i+3], padded on the right with '0' to three characters
WitnessGroup(w, g) ==
  [j \in 1..3 |-> IF 3 * (g - 1) + j <= Len(w) THEN w[3 * (g - 1) + j] ELSE "0"]

NumGroups(w) == (Len(w) + 2) \div 3

\* the gate sequence, or an error when some group does not parse
witness_to_quantum_circuit(w) ==
  IF \E g \in 1..NumGroups(w) : IntRaises(WitnessGroup(w, g))
  THEN [err |-> "ValueError", gates |-> <<>>]
  ELSE [err |-> "none",
        gates |-> [g \in 1..NumGroups(w) |->
                     gate_names[(IntBase2(WitnessGroup(w, g)) % Len(gate_names)) + 1]]]

\* hashlib.sha256(statement.encode()).digest() on the statements of the model
Sha256(s) ==
  CASE s = "A" ->
         <<85, 154, 234, 208, 130, 100, 213, 121, 93, 57, 9, 113, 140, 221, 5,
           171, 212, 149, 114, 232, 79, 229, 85, 144, 238, 243, 26, 136, 160,
           143, 223, 253>>
    [] s = "1" ->
         <<107, 134, 178, 115, 255, 52, 252, 225, 157, 107, 128, 78, 255, 90,
           63, 87, 71, 173, 164, 234, 162, 47, 29, 73, 192, 30, 82, 221, 183,
           135, 91, 75>>
    [] s = "" ->
         <<227, 176, 196, 66, 152, 252, 28, 20, 154, 251, 244, 200, 153, 111,
           185, 36, 39, 174, 65, 228, 100, 155, 147, 76, 164, 149, 153, 27,
           120, 82, 184, 85>>

basis_map(basis_index) ==
  CASE basis_index = 0 -> "Z"
    [] basis_index = 1 -> "X"
    [] basis_index = 2 -> "Y"
    [] basis_index = 3 -> "Z"

\* the basis taken from the high end of the byte
BasisAtHighBits(statement_hash, i) ==
  basis_map((statement_hash[(i % Len(statement_hash)) + 1]
               \div Pow2(6 - 2 * (i % 4))) % 4)

\* the basis of 0-based measurement index i
BasisAt(statement_hash, i) ==
  LET byte_index == i % Len(statement_hash)
      bit_shift == 2 * (i % 4)
      basis_index == (statement_hash[byte_index + 1] \div Pow2(bit_shift)) % 4
  IN basis_map(basis_index)

statement_to_bases(statement, num_measurements) ==
  IF statement.type # "str" THEN [err |-> "ConfigurationError", bases |-> <<>>]
  ELSE IF num_measurements < 1 THEN [err |-> "ConfigurationError", bases |-> <<>>]
  ELSE [err |-> "none",
        bases |-> [i \in 1..num_measurements |->
                     BasisAt(Sha256(statement.val), i - 1)]]

RECURSIVE ApplyGates(_, _, _)
ApplyGates(st, gate_sequence, j) ==
  IF j > Len(gate_sequence) THEN st
  ELSE ApplyGates(apply_gate(st, gate_library(gate_sequence[j]), 0),
                  gate_sequence, j + 1)

\* apply_circuit works on a copy of the state and returns the result
apply_circuit(state, gate_sequence) == ApplyGates(state, gate_sequence, 1)

\* a circuit applied to the array it is given
apply_circuit_in_place(state, gate_sequence) == apply_circuit(state, gate_sequence)

\* what the array handed to apply_circuit holds when the call returns:
\* current_state = state.copy(), and apply_gate builds a new array each time
apply_circuit_leaves(state, gate_sequence) == state

(***************************************************************************)
(* EntanglementSource                                                      *)
(***************************************************************************)
\* set_seed that stores the seed and leaves the generator as it is
set_seed_no_reseed(seed, s) == [random_seed |-> PyInt(seed), rng |-> s]

\* set_seed: random_seed is stored and the global generator is reseeded
set_seed(seed, s) == [random_seed |-> PyInt(seed), rng |-> RngSeedState(seed)]

generate_epr_pairs(num_pairs, state_type) ==
  IF num_pairs < 1 THEN [err |-> "ConfigurationError", pairs |-> <<>>]
  ELSE IF num_pairs > 1000000 THEN [err |-> "ConfigurationError", pairs |-> <<>>]
  ELSE IF state_type \notin StateTypes
       THEN [err |-> "ConfigurationError", pairs |-> <<>>]
  ELSE [err |-> "none",
        pairs |-> [i \in 1..num_pairs |-> create_bell_state(state_type)]]

\* both parties get the same list object
split_epr_pairs(epr_pairs) == <<epr_pairs, epr_pairs>>

(***************************************************************************)
(* BellMeasurement.chsh_inequality_test and the protocol phases, as        *)
(* functions of their arguments and of the generator state they start in.  *)
(***************************************************************************)
\* the indices zip() pairs up that fall into cell (a, b)
CellIdx(alice_bases, bob_bases, n, a, b) ==
  {i \in 1..n : alice_bases[i] = a /\ bob_bases[i] = b}

\* a cell that counts the agreements only
CellSumAgreements(alice_results, bob_results, idx) ==
  Cardinality({i \in idx : alice_results[i] = bob_results[i]})

\* E[a,b] before normalisation: +1 per agreement, -1 per disagreement
CellSum(alice_results, bob_results, idx) ==
  Cardinality({i \in idx : alice_results[i] = bob_results[i]})
  - Cardinality({i \in idx : alice_results[i] # bob_results[i]})

\* the divisor of a cell: its count, or 1 for a cell that is left as it is
CellDiv(idx) == IF Cardinality(idx) > 0 THEN Cardinality(idx) ELSE 1

\* the signed sum S = E[0,0] - E[0,1] + E[1,0] + E[1,1] as a rational
ChshS(alice_results, bob_results, alice_bases, bob_bases) ==
  LET n == Min(Min(Len(alice_results), Len(bob_results)),
               Min(Len(alice_bases), Len(bob_bases)))
      zz == CellIdx(alice_bases, bob_bases, n, "Z", "Z")
      zx == CellIdx(alice_bases, bob_bases, n, "Z", "X")
      xz == CellIdx(alice_bases, bob_bases, n, "X", "Z")
      xx == CellIdx(alice_bases, bob_bases, n, "X", "X")
      e(idx) == CellSum(alice_results, bob_results, idx)
      d(idx) == CellDiv(idx)
  IN [num |-> e(zz) * d(zx) * d(xz) * d(xx) - e(zx) * d(zz) * d(xz) * d(xx)
              + e(xz) * d(zz) * d(zx) * d(xx) + e(xx) * d(zz) * d(zx) * d(xz),
      den |-> d(zz) * d(zx) * d(xz) * d(xx)]

\* the table E that chsh_inequality_test returns with the value: cell (a, b)
\* as a rational, a = basis of alice, b = basis of bob
chsh_correlations(alice_results, bob_results, alice_bases, bob_bases) ==
  LET n == Min(Min(Len(alice_results), Len(bob_results)),
               Min(Len(alice_bases), Len(bob_bases)))
  IN [a \in {"Z", "X"}, b \in {"Z", "X"} |->
        [num |-> CellSum(alice_results, bob_results,
                         CellIdx(alice_bases, bob_bases, n, a, b)),
         den |-> CellDiv(CellIdx(alice_bases, bob_bases, n, a, b))]]

\* the signed sum returned without abs()
chsh_signed(alice_results, bob_results, alice_bases, bob_bases) ==
  ChshS(alice_results, bob_results, alice_bases, bob_bases)

\* abs(S)
chsh_inequality_test(alice_results, bob_results, alice_bases, bob_bases) ==
  LET S == ChshS(alice_results, bob_results, alice_bases, bob_bases)
  IN [num |-> IF S.num < 0 THEN 0 - S.num ELSE S.num, den |-> S.den]

RatLess(x, y) == x.num * y.den < y.num * x.den

NoChsh == [num |-> 0, den |-> 1]

\* the loop of prover_phase / verifier_phase over zip(particles, bases); one
\* draw per pair, in index order; stops at the first basis measure() rejects
RECURSIVE MeasureLoop(_, _, _, _, _, _)
MeasureLoop(particles, gate_sequence, bases, i, s, acc) ==
  IF i > Min(Len(particles), Len(bases))
  THEN [err |-> "none", results |-> acc, rng |-> s]
  ELSE IF bases[i] \notin Bases
  THEN [err |-> "ValueError", results |-> acc, rng |-> s]
  ELSE MeasureLoop(particles, gate_sequence, bases, i + 1, RngNext(s),
                   Append(acc, measure(apply_circuit(particles[i], gate_sequence),
                                       bases[i], RngNext(s))))

\* QuantumEntanglementZK.setup
setup(self, seed, random_seed, s) ==
  IF seed.type \notin {"int", "NoneType"}
  THEN [err |-> "ConfigurationError", particles |-> <<>>,
        random_seed |-> random_seed, rng |-> s]
  ELSE LET seeded == IF seed.type = "int" THEN set_seed(seed.val, s)
                     ELSE [random_seed |-> random_seed, rng |-> s]
           gen == generate_epr_pairs(self.num_epr_pairs, "phi_plus")
       IN IF gen.err # "none"
          THEN [err |-> gen.err, particles |-> <<>>,
                random_seed |-> seeded.random_seed, rng |-> seeded.rng]
          ELSE IF Len(gen.pairs) # self.num_epr_pairs
          THEN [err |-> "EntanglementError", particles |-> <<>>,
                random_seed |-> seeded.random_seed, rng |-> seeded.rng]
          ELSE [err |-> "none", particles |-> split_epr_pairs(gen.pairs)[1],
                random_seed |-> seeded.random_seed, rng |-> seeded.rng]

\* bases picked from where the generator stands instead of from the statement alone
ProverBasesFromRng(statement, witness, n, s) ==
  [err |-> "none",
   bases |-> [i \in 1..n |-> BasisAt(Sha256(statement.val), i - 1 + s)]]

\* the measurement bases prover_phase derives
ProverBases(statement, witness, n, s) == statement_to_bases(statement, n)

\* QuantumEntanglementZK.prover_phase
prover_phase(statement, witness, prover_particles, s) ==
  LET fail(e) == [err |-> e, results |-> <<>>, bases |-> <<>>, rng |-> s,
                  particles |-> prover_particles]
      left(gates) == [i \in 1..Len(prover_particles) |->
                        apply_circuit_leaves(prover_particles[i], gates)]
  IN IF statement.type # "str" \/ statement.val = "" THEN fail("ProtocolError")
     ELSE IF witness.type # "str" THEN fail("ProtocolError")
     ELSE IF Len(prover_particles) = 0 THEN fail("ProtocolError")
     ELSE LET circ == witness_to_quantum_circuit(witness.val)
              sb == ProverBases(statement, witness, Len(prover_particles), s)
          IN IF circ.err # "none" THEN fail("ProtocolError")
             ELSE IF sb.err # "none" THEN fail("ProtocolError")
             ELSE IF Len(sb.bases) # Len(prover_particles) THEN fail("ProtocolError")
             ELSE LET m == MeasureLoop(prover_particles, circ.gates, sb.bases,
                                       1, s, <<>>)
                  IN IF m.err # "none"
                     THEN [err |-> "MeasurementError", results |-> <<>>,
                           bases |-> <<>>, rng |-> m.rng,
                           particles |-> left(circ.gates)]
                     ELSE [err |-> "none", results |-> m.results,
                           bases |-> sb.bases, rng |-> m.rng,
                           particles |-> left(circ.gates)]

\* QuantumEntanglementZK.verifier_phase: no gates, the bases it is given
verifier_phase(statement, verifier_particles, measurement_bases, s) ==
  MeasureLoop(verifier_particles, <<>>, measurement_bases, 1, s, <<>>)

Agreements(prover_results, verifier_results) ==
  Cardinality({i \in 1..Len(prover_results) :
                 prover_results[i] = verifier_results[i]})

\* the input validation of verify() without the check of the bases
VerifyRejectsNoBasisCheck(prover_results, verifier_results, measurement_bases) ==
  \/ Len(prover_results) # Len(verifier_results)
  \/ Len(prover_results) # Len(measurement_bases)
  \/ Len(prover_results) = 0
  \/ \E i \in 1..Len(prover_results) : prover_results[i] \notin {0, 1}
  \/ \E i \in 1..Len(verifier_results) : verifier_results[i] \notin {0, 1}

\* the input validation of verify(): TRUE when it raises VerificationError
VerifyRejects(prover_results, verifier_results, measurement_bases) ==
  \/ Len(prover_results) # Len(verifier_results)
  \/ Len(prover_results) # Len(measurement_bases)
  \/ Len(prover_results) = 0
  \/ \E i \in 1..Len(prover_results) : prover_results[i] \notin {0, 1}
  \/ \E i \in 1..Len(verifier_results) : verifier_results[i] \notin {0, 1}
  \/ \E i \in 1..Len(measurement_bases) : measurement_bases[i] \notin Bases

\* a verdict that accepts a correlation of exactly 0.7
VerifyVerdictAtLeast(self, chsh_value, prover_results, verifier_results) ==
  /\ RatLess(self.chsh_threshold, chsh_value)
  /\ 10 * Agreements(prover_results, verifier_results) >= 7 * Len(prover_results)

\* is_valid = is_entangled and consistency
VerifyVerdict(self, chsh_value, prover_results, verifier_results) ==
  /\ RatLess(self.chsh_threshold, chsh_value)
  /\ 10 * Agreements(prover_results, verifier_results) > 7 * Len(prover_results)

\* the range check of verify() on the CHSH value
ChshOutOfRange(chsh_value) ==
  RatLess(chsh_value, [num |-> 0, den |-> 1]) \/ RatLess([num |-> 3, den |-> 1], chsh_value)

\* a verify() that hands the CHSH test the bases of the verifier with Z and
\* X exchanged
verify_other_bases(self, prover_results, verifier_results, measurement_bases) ==
  LET fail == [err |-> "VerificationError", is_valid |-> FALSE,
               chsh_value |-> NoChsh]
      bob_bases == [i \in 1..Len(measurement_bases) |->
                      IF measurement_bases[i] = "Z" THEN "X"
                      ELSE IF measurement_bases[i] = "X" THEN "Z"
                      ELSE measurement_bases[i]]
      chsh_value == chsh_inequality_test(prover_results, verifier_results,
                                         measurement_bases, bob_bases)
  IN IF VerifyRejects(prover_results, verifier_results, measurement_bases)
     THEN fail
     ELSE IF ChshOutOfRange(chsh_value) THEN fail
     ELSE [err |-> "none",
           is_valid |-> VerifyVerdict(self, chsh_value, prover_results,
                                      verifier_results),
           chsh_value |-> chsh_value]

\* QuantumEntanglementZK.verify
verify(self, prover_results, verifier_results, measurement_bases) ==
  LET fail == [err |-> "VerificationError", is_valid |-> FALSE,
               chsh_value |-> NoChsh]
      chsh_value == chsh_inequality_test(prover_results, verifier_results,
                                         measurement_bases, measurement_bases)
  IN IF VerifyRejects(prover_results, verifier_results, measurement_bases)
     THEN fail
     ELSE IF ChshOutOfRange(chsh_value) THEN fail
     ELSE [err |-> "none",
           is_valid |-> VerifyVerdict(self, chsh_value, prover_results,
                                      verifier_results),
           chsh_value |-> chsh_value]

(***************************************************************************)
(* The protocol object and a caller of prove().                            *)
(***************************************************************************)
VARIABLES
  qezk,         \* the protocol object: num_epr_pairs, chsh_threshold (or the constructor's error)
  rng,          \* state of the global numpy generator
  random_seed,  \* EntanglementSource.random_seed
  pc,           \* where the running prove() call is; "idle" when none runs
  args,         \* arguments of the running (or last) prove() call
  frame,        \* locals of the running prove() call
  ret,          \* how the last prove() call ended: a Proof or a raised error
  log,          \* the phases the running (or last) prove() call ran, with their outcome
  mlog,         \* the party of each measurement of that call, in the order taken
  ref,          \* an earlier prove() call and its outcome, kept by the caller
  sess,         \* what a caller of the phase operations holds
  inp,          \* the arguments and the result of a direct call
  other,        \* a second prove() call running in another thread
  heap,         \* the list objects of a caller that keeps a Proof: lists by address
  mq,           \* a MessageQueue and the threads calling it
  cache,        \* a VerificationCache and the threads of a BatchVerifier using it
  net,          \* a QuantumNetwork: its topology and routing table
  conn,         \* a NetworkClient or SecureConnection and the peer it talks to
  dist          \* a DistributedVerifier, a DistributedProver and the messages between them

vars == <<qezk, rng, random_seed, pc, args, frame, ret, log, mlog, ref, sess, inp, other, heap, mq,
          cache, net, conn, dist>>

Rat(n, d) == [num |-> n, den |-> d]

\* a constructor that rejects the largest pair count and the largest threshold
qezk_init_strict(num_epr_pairs, chsh_threshold) ==
  IF num_epr_pairs < 1 THEN [err |-> "ConfigurationError"]
  ELSE IF num_epr_pairs >= 1000000 THEN [err |-> "ConfigurationError"]
  ELSE IF RatLess(chsh_threshold, Rat(0, 1)) \/ ~RatLess(chsh_threshold, Rat(3, 1))
       THEN [err |-> "ConfigurationError"]
  ELSE [err |-> "none", num_epr_pairs |-> num_epr_pairs,
        chsh_threshold |-> chsh_threshold]

\* QuantumEntanglementZK.__init__
qezk_init(num_epr_pairs, chsh_threshold) ==
  IF num_epr_pairs < 1 THEN [err |-> "ConfigurationError"]
  ELSE IF num_epr_pairs > 1000000 THEN [err |-> "ConfigurationError"]
  ELSE IF RatLess(chsh_threshold, Rat(0, 1)) \/ RatLess(Rat(3, 1), chsh_threshold)
       THEN [err |-> "ConfigurationError"]
  ELSE [err |-> "none", num_epr_pairs |-> num_epr_pairs,
        chsh_threshold |-> chsh_threshold]

\* a Proof built with the verifier's last result left out
QEZKProofTruncated(prover_results, verifier_results, measurement_bases, chsh_value, is_valid, statement) ==
  [prover_results |-> prover_results,
   verifier_results |-> SubSeq(verifier_results, 1, Len(verifier_results) - 1),
   measurement_bases |-> measurement_bases, chsh_value |-> chsh_value,
   is_valid |-> is_valid, statement |-> statement]

\* QEZKProof(...) as prove() fills it
QEZKProof(prover_results, verifier_results, measurement_bases, chsh_value, is_valid, statement) ==
  [prover_results |-> prover_results, verifier_results |-> verifier_results,
   measurement_bases |-> measurement_bases, chsh_value |-> chsh_value,
   is_valid |-> is_valid, statement |-> statement]

NoProof == QEZKProof(<<>>, <<>>, <<>>, NoChsh, FALSE, "")
NoRet == [kind |-> "none", err |-> "none", proof |-> NoProof]
NoArgs == [statement |-> PyNoneStr, witness |-> PyNoneWit, seed |-> PyNoneInt]
NoRef == [set |-> FALSE, now |-> FALSE, args |-> NoArgs, ret |-> NoRet]
EmptyFrame ==
  [particles |-> <<>>, prover_results |-> <<>>, measurement_bases |-> <<>>,
   verifier_results |-> <<>>, verifier_bases |-> <<>>]
NoOut == [err |-> "none", is_valid |-> FALSE, chsh_value |-> NoChsh]
NoSess ==
  [stage |-> "none", share |-> <<>>, statement |-> PyNoneStr, pres |-> <<>>,
   pbases |-> <<>>, vres |-> <<>>, vbases |-> <<>>, out |-> NoOut]
NoInp == [op |-> "none"]

NoOther == [pc |-> "idle", args |-> NoArgs, frame |-> EmptyFrame, ret |-> NoRet]

\* no MessageQueue built
NoMq == [queue |-> <<>>, max_size |-> 0]

\* no cache, network, connection or distributed party built
NoCache == [entries |-> <<>>]
NoNet == [nodes |-> {}]
NoConn == [state |-> "none"]
NoDist == [stage |-> "none"]

\* no list allocated, no Proof kept
NoHeap ==
  [lists |-> <<>>, kept |-> FALSE,
   proof |-> [prover_results |-> 0, verifier_results |-> 0,
              measurement_bases |-> 0, chsh_value |-> NoChsh,
              is_valid |-> FALSE, statement |-> ""],
   was |-> NoProof]

\* no call runs, nothing is held
Quiet ==
  /\ random_seed = PyNoneInt
  /\ pc = "idle"
  /\ args = NoArgs
  /\ frame = EmptyFrame
  /\ ret = NoRet
  /\ log = <<>>
  /\ mlog = <<>>
  /\ ref = NoRef
  /\ sess = NoSess
  /\ inp = NoInp
  /\ other = NoOther
  /\ heap = NoHeap
  /\ mq = NoMq
  /\ cache = NoCache
  /\ net = NoNet
  /\ conn = NoConn
  /\ dist = NoDist

\* the inputs a caller passes
Statements == {PyStr("A"), PyStr("1"), PyStr(""), PyNoneStr}
Witnesses == {PyWit(<<>>), PyWit(<<"1">>), PyWit(<<"2">>), PyNoneWit}
Seeds == {PyNoneInt, PyInt(1), PyInt(2), PyStrSeed}
Thresholds == {Rat(0, 1), Rat(11, 5)}

\* the except clauses of prove(): these kinds pass, any other is wrapped
ProveRaise(e) ==
  IF e \in {"ProtocolError", "ConfigurationError", "EntanglementError",
            "VerificationError", "MeasurementError"}
  THEN e ELSE "ProtocolError"

\* an input validation that lets the empty statement through
InputOkNoEmptyCheck(statement, witness) ==
  statement.type = "str" /\ witness.type = "str"

\* the input validation at the head of prove()
InputOk(statement, witness) ==
  /\ statement.type = "str" /\ statement.val # ""
  /\ witness.type = "str"

\* prove() with the verifier phase called before the prover phase
PhaseAfterSwapped(p) ==
  CASE p = "check" -> "setup"
    [] p = "setup" -> "verifier_phase"
    [] p = "verifier_phase" -> "prover_phase"
    [] p = "prover_phase" -> "verify"
    [] p = "verify" -> "done"

\* the order of the statements of prove()
PhaseAfter(p) ==
  CASE p = "check" -> "setup"
    [] p = "setup" -> "prover_phase"
    [] p = "prover_phase" -> "verifier_phase"
    [] p = "verifier_phase" -> "verify"
    [] p = "verify" -> "done"

Init ==
  /\ \E n \in 1..MaxPairs, t \in Thresholds : qezk = qezk_init(n, t)
  /\ rng \in RngStates
  /\ random_seed = PyNoneInt
  /\ pc = "idle"
  /\ args = NoArgs
  /\ frame = EmptyFrame
  /\ ret = NoRet
  /\ log = <<>>
  /\ mlog = <<>>
  /\ ref = NoRef
  /\ sess = NoSess
  /\ inp = NoInp
  /\ other = NoOther
  /\ heap = NoHeap
  /\ mq = NoMq
  /\ cache = NoCache
  /\ net = NoNet
  /\ conn = NoConn
  /\ dist = NoDist

\* an exception leaves prove()
Raise(e) ==
  /\ pc' = "done"
  /\ ret' = [kind |-> "raise", err |-> ProveRaise(e), proof |-> NoProof]

Logged(phase, err) == Append(log, [phase |-> phase, ok |-> err = "none"])

Parties(party, n) == [i \in 1..n |-> party]

\* a caller enters prove(statement, witness, seed); the inputs are validated
Call(statement, witness, seed) ==
  /\ pc = "idle"
  /\ args' = [statement |-> statement, witness |-> witness, seed |-> seed]
  /\ IF InputOk(statement, witness)
     THEN pc' = PhaseAfter("check") /\ ret' = ret
     ELSE Raise("ProtocolError")
  /\ UNCHANGED <<qezk, rng, random_seed, frame, log, mlog, ref, sess, inp, other, heap, mq, cache, net, conn, dist>>

DoSetup ==
  /\ pc = "setup"
  /\ \E r \in {setup(qezk, args.seed, random_seed, rng)} :
        /\ rng' = r.rng
        /\ random_seed' = r.random_seed
        /\ log' = Logged("setup", r.err)
        /\ IF r.err = "none"
           THEN /\ frame' = [frame EXCEPT !.particles = r.particles]
                /\ pc' = PhaseAfter(pc)
                /\ ret' = ret
           ELSE frame' = frame /\ Raise(r.err)
  /\ UNCHANGED <<qezk, args, mlog, ref, sess, inp, other, heap, mq, cache, net, conn, dist>>

DoProverPhase ==
  /\ pc = "prover_phase"
  /\ \E r \in {prover_phase(args.statement, args.witness, frame.particles, rng)} :
        /\ rng' = r.rng
        /\ log' = Logged("prover_phase", r.err)
        /\ mlog' = mlog \o Parties("P", Len(r.results))
        /\ IF r.err = "none"
           THEN /\ frame' = [frame EXCEPT !.particles = r.particles,
                                          !.prover_results = r.results,
                                          !.measurement_bases = r.bases]
                /\ pc' = PhaseAfter(pc)
                /\ ret' = ret
           ELSE frame' = frame /\ Raise(r.err)
  /\ UNCHANGED <<qezk, random_seed, args, ref, sess, inp, other, heap, mq, cache, net, conn, dist>>

DoVerifierPhase ==
  /\ pc = "verifier_phase"
  /\ \E r \in {verifier_phase(args.statement, frame.particles,
                             frame.measurement_bases, rng)} :
        /\ rng' = r.rng
        /\ log' = Logged("verifier_phase", r.err)
        /\ mlog' = mlog \o Parties("V", Len(r.results))
        /\ IF r.err = "none"
           THEN /\ frame' = [frame EXCEPT
                             !.verifier_results = r.results,
                             !.verifier_bases =
                               SubSeq(frame.measurement_bases, 1, Len(r.results))]
                /\ pc' = PhaseAfter(pc)
                /\ ret' = ret
           ELSE frame' = frame /\ Raise(r.err)
  /\ UNCHANGED <<qezk, random_seed, args, ref, sess, inp, other, heap, mq, cache, net, conn, dist>>

\* verify, then the Proof is built and returned
DoVerify ==
  /\ pc = "verify"
  /\ \E r \in {verify(qezk, frame.prover_results, frame.verifier_results,
                     frame.measurement_bases)} :
        /\ log' = Logged("verify", r.err)
        /\ IF r.err = "none"
           THEN /\ pc' = PhaseAfter(pc)
                /\ ret' = [kind |-> "proof", err |-> "none",
                           proof |-> QEZKProof(frame.prover_results,
                                               frame.verifier_results,
                                               frame.measurement_bases,
                                               r.chsh_value, r.is_valid,
                                               args.statement.val)]
           ELSE Raise(r.err)
  /\ UNCHANGED <<qezk, rng, random_seed, args, frame, mlog, ref, sess, inp, other, heap, mq, cache, net, conn, dist>>

\* the caller keeps the Proof of the finished call to compare later ones with
Remember ==
  /\ pc = "done"
  /\ ret.kind = "proof"
  /\ ~ref.set
  /\ ref' = [set |-> TRUE, now |-> TRUE, args |-> args, ret |-> ret]
  /\ UNCHANGED <<qezk, rng, random_seed, pc, args, frame, ret, log, mlog, sess, inp, other, heap, mq, cache, net, conn, dist>>

\* the call is over: its locals are gone
Finish ==
  /\ pc = "done"
  /\ pc' = "idle"
  /\ args' = NoArgs
  /\ frame' = EmptyFrame
  /\ ret' = NoRet
  /\ log' = <<>>
  /\ mlog' = <<>>
  /\ ref' = [ref EXCEPT !.now = FALSE]
  /\ UNCHANGED <<qezk, rng, random_seed, sess, inp, other, heap, mq, cache, net, conn, dist>>

BellShare(n) == [i \in 1..n |-> create_bell_state("phi_plus")]

\* between prove() calls the caller uses the phase operations directly
OpSetup(seed) ==
  /\ pc = "idle"
  /\ \E r \in {setup(qezk, seed, random_seed, rng)} :
        rng' = r.rng /\ random_seed' = r.random_seed
  /\ UNCHANGED <<qezk, pc, args, frame, ret, log, mlog, ref, sess, inp, other, heap, mq, cache, net, conn, dist>>

OpProverPhase(statement, witness, n) ==
  /\ pc = "idle"
  /\ rng' = prover_phase(statement, witness, BellShare(n), rng).rng
  /\ UNCHANGED <<qezk, random_seed, pc, args, frame, ret, log, mlog, ref, sess, inp, other, heap, mq, cache, net, conn, dist>>

OpVerifierPhase(statement, n) ==
  /\ pc = "idle"
  /\ rng' = verifier_phase(statement, BellShare(n),
                           statement_to_bases(statement, n).bases, rng).rng
  /\ UNCHANGED <<qezk, random_seed, pc, args, frame, ret, log, mlog, ref, sess, inp, other, heap, mq, cache, net, conn, dist>>

Next ==
  \/ \E s \in Statements, w \in Witnesses, sd \in Seeds : Call(s, w, sd)
  \/ DoSetup
  \/ DoProverPhase
  \/ DoVerifierPhase
  \/ DoVerify
  \/ Remember
  \/ Finish
  \/ \E sd \in Seeds : OpSetup(sd)
  \/ \E s \in Statements, w \in Witnesses, n \in 0..MaxPairs : OpProverPhase(s, w, n)
  \/ \E s \in Statements, n \in 1..MaxPairs : OpVerifierPhase(s, n)

Spec == Init /\ [][Next]_vars

(***************************************************************************)
(* Claims about prove(), checked under Spec.                               *)
(***************************************************************************)
RatEq(x, y) == x.num * y.den = y.num * x.den

\* a finished prove() call that returned a Proof, with an earlier Proof kept
TwoProofs == pc = "done" /\ ret.kind = "proof" /\ ref.set

\* C1: two prove() calls with the same statement, witness and integer seed
\* return the same prover_results, verifier_results, measurement_bases and
\* chsh_value, whatever ran on the system before or between them.
C1_SameSeedSameProof ==
  (TwoProofs /\ ref.args = args /\ args.seed.type = "int")
    => /\ ret.proof.prover_results = ref.ret.proof.prover_results
       /\ ret.proof.verifier_results = ref.ret.proof.verifier_results
       /\ ret.proof.measurement_bases = ref.ret.proof.measurement_bases
       /\ RatEq(ret.proof.chsh_value, ref.ret.proof.chsh_value)

\* a later call, with the same seed as the kept one, has returned
C1_Witness ==
  TwoProofs /\ ~ref.now /\ ref.args = args /\ args.seed.type = "int"

\* C2: the bases of a run depend on the statement and the number of pairs
\* only: the bases prover_phase returned inside prove(), and the bases of the
\* Proof, equal those of any earlier Proof for the same statement, for every
\* witness and seed (no seed included).
C2_BasesFromStatementOnly ==
  (ref.set /\ ref.args.statement = args.statement)
    => /\ (pc \in {"verifier_phase", "verify"}
             => frame.measurement_bases = ref.ret.proof.measurement_bases)
       /\ (pc = "done" /\ ret.kind = "proof"
             => ret.proof.measurement_bases = ref.ret.proof.measurement_bases)

\* same statement, another witness, one call seeded and the other not
C2_Witness ==
  /\ TwoProofs /\ ~ref.now
  /\ ref.args.statement = args.statement
  /\ ref.args.witness # args.witness
  /\ ref.args.seed.type # args.seed.type

\* C3: a Proof returned by prove() has prover_results, verifier_results and
\* measurement_bases of length num_epr_pairs, results in {0,1}, bases in
\* {Z,X,Y}.
C3_ProofShape ==
  (pc = "done" /\ ret.kind = "proof")
    => /\ Len(ret.proof.prover_results) = qezk.num_epr_pairs
       /\ Len(ret.proof.verifier_results) = qezk.num_epr_pairs
       /\ Len(ret.proof.measurement_bases) = qezk.num_epr_pairs
       /\ \A i \in 1..Len(ret.proof.prover_results) :
            ret.proof.prover_results[i] \in {0, 1}
       /\ \A i \in 1..Len(ret.proof.verifier_results) :
            ret.proof.verifier_results[i] \in {0, 1}
       /\ \A i \in 1..Len(ret.proof.measurement_bases) :
            ret.proof.measurement_bases[i] \in Bases

\* a Proof for the empty witness on a system with one pair
C3_Witness ==
  /\ pc = "done" /\ ret.kind = "proof"
  /\ args.witness = PyWit(<<>>)
  /\ qezk.num_epr_pairs = 1

PhaseOrder == <<"setup", "prover_phase", "verifier_phase", "verify">>

\* C7: in a prove() call the phases run in the order setup, prover_phase,
\* verifier_phase, verify, each at most once; a phase runs only after the
\* ones before it succeeded, a failed phase ends the call; the prover has
\* measured every pair before the verifier measures one; a Proof exists only
\* after verify returned.
C7_PhaseOrder ==
  /\ Len(log) <= Len(PhaseOrder)
  /\ \A i \in 1..Len(log) : log[i].phase = PhaseOrder[i]
  /\ \A i \in 1..Len(log) : ~log[i].ok => (i = Len(log) /\ pc = "done" /\ ret.kind = "raise")
  /\ ret.kind = "proof" => (Len(log) = Len(PhaseOrder) /\ log[Len(log)].ok)
  /\ \A i, j \in 1..Len(mlog) : (i < j /\ mlog[i] = "V") => mlog[j] = "V"
  /\ (\E i \in 1..Len(mlog) : mlog[i] = "V")
       => Cardinality({i \in 1..Len(mlog) : mlog[i] = "P"}) = qezk.num_epr_pairs

\* a call that ran all four phases and measured every pair twice
C7_Witness ==
  /\ pc = "done" /\ ret.kind = "proof"
  /\ Len(log) = Len(PhaseOrder)
  /\ Len(mlog) = 2 * qezk.num_epr_pairs
  /\ qezk.num_epr_pairs > 1

BadInput(a) ==
  \/ a.statement.type # "str"
  \/ a.statement.val = ""
  \/ a.witness.type # "str"

\* C8: prove() with an empty or non-string statement or a non-string witness
\* raises ProtocolError before any pair is generated or measured; when the
\* input check or a phase fails, prove() raises and returns no Proof.
C8_InvalidInputRaises ==
  /\ (pc = "done" /\ BadInput(args))
       => /\ ret.kind = "raise" /\ ret.err = "ProtocolError"
          /\ log = <<>> /\ mlog = <<>> /\ frame.particles = <<>>
  /\ (pc = "done" /\ \E i \in 1..Len(log) : ~log[i].ok) => ret.kind = "raise"
  /\ ret.kind = "raise" => ret.proof = NoProof
  /\ ret.kind = "proof" => (~BadInput(args) /\ \A i \in 1..Len(log) : log[i].ok)

\* prove("") has raised
C8_Witness ==
  /\ pc = "done" /\ ret.kind = "raise"
  /\ args.statement = PyStr("")
  /\ args.witness.type = "str"

\* a phase of prove() has failed
C8_PhaseFailed == pc = "done" /\ \E i \in 1..Len(log) : ~log[i].ok

(***************************************************************************)
(* The constructor on its own (SpecInit).                                  *)
(***************************************************************************)
CtorPairs == {-1, 0, 1, 2, 999999, 1000000, 1000001, 2000000}
CtorThresholds == {Rat(n, 10) : n \in -2..32} \cup {Rat(-1, 1), Rat(5, 1)}

Unbuilt == [err |-> "unbuilt"]

Construct(num_epr_pairs, chsh_threshold) ==
  /\ qezk = Unbuilt
  /\ inp' = [op |-> "init", num_epr_pairs |-> num_epr_pairs,
             chsh_threshold |-> chsh_threshold]
  /\ qezk' = qezk_init(num_epr_pairs, chsh_threshold)
  /\ UNCHANGED <<rng, random_seed, pc, args, frame, ret, log, mlog, ref, sess, other, heap, mq, cache, net, conn, dist>>

InitCtor == qezk = Unbuilt /\ rng \in RngStates /\ Quiet

NextCtor ==
  /\ qezk = Unbuilt
  /\ \E n \in CtorPairs, t \in CtorThresholds : Construct(n, t)

SpecInit == InitCtor /\ [][NextCtor]_vars

\* C9: the constructor raises ConfigurationError exactly when numPairs < 1,
\* numPairs > 1000000, threshold < 0 or threshold > 3; an accepted object
\* stores the numPairs and the threshold it was given.
C9_ConstructorRange ==
  inp.op = "init"
    => /\ qezk.err \in {"none", "ConfigurationError"}
       /\ qezk.err = "ConfigurationError"
            <=> \/ inp.num_epr_pairs < 1
                \/ inp.num_epr_pairs > 1000000
                \/ inp.chsh_threshold.num < 0
                \/ inp.chsh_threshold.num > 3 * inp.chsh_threshold.den
       /\ qezk.err = "none"
            => /\ qezk.num_epr_pairs = inp.num_epr_pairs
               /\ qezk.chsh_threshold = inp.chsh_threshold

\* the largest pair count with the largest threshold is accepted
C9_Witness ==
  /\ inp.op = "init"
  /\ inp.num_epr_pairs = 1000000
  /\ inp.chsh_threshold = Rat(30, 10)
  /\ qezk.err = "none"

(***************************************************************************)
(* verify() on its own (SpecVerify).                                       *)
(***************************************************************************)
SeqsUpTo(S, n) == UNION {[1..k -> S] : k \in 0..n}

VerifyThresholds == {Rat(0, 1), Rat(2, 1), Rat(11, 5)}

\* valid arguments of length n: z bases Z, then x bases X, then Y; the two
\* parties disagree on the first kz, kx, ky indices of each block
LongResults(n) == [i \in 1..n |-> i % 2]
LongBases(n, z, x) ==
  [i \in 1..n |-> IF i <= z THEN "Z" ELSE IF i <= z + x THEN "X" ELSE "Y"]
LongOther(n, z, x, kz, kx, ky) ==
  [i \in 1..n |->
     IF i <= kz \/ (z < i /\ i <= z + kx) \/ (z + x < i /\ i <= z + x + ky)
     THEN 1 - LongResults(n)[i] ELSE LongResults(n)[i]]

CallVerify(prover_results, verifier_results, measurement_bases) ==
  /\ inp.op = "none"
  /\ inp' = [op |-> "verify", prover_results |-> prover_results,
             verifier_results |-> verifier_results,
             measurement_bases |-> measurement_bases,
             out |-> verify(qezk, prover_results, verifier_results,
                            measurement_bases)]
  /\ UNCHANGED <<qezk, rng, random_seed, pc, args, frame, ret, log, mlog, ref, sess, other, heap, mq, cache, net, conn, dist>>

InitVerify ==
  /\ \E t \in VerifyThresholds : qezk = qezk_init(MaxVerifyLen, t)
  /\ rng = 1
  /\ Quiet

VerifyAny ==
  /\ inp.op = "none"
  /\ \E p \in SeqsUpTo({0, 1, 2}, MaxAnyLen), v \in SeqsUpTo({0, 1, 2}, MaxAnyLen),
        b \in SeqsUpTo({"Z", "X", "Y", "W"}, MaxAnyLen) : CallVerify(p, v, b)

VerifyLong ==
  /\ inp.op = "none"
  /\ \E n \in 1..MaxVerifyLen : \E z \in 0..n : \E x \in 0..(n - z) :
       \E kz \in 0..z, kx \in 0..x, ky \in 0..(n - z - x) :
         CallVerify(LongResults(n), LongOther(n, z, x, kz, kx, ky), LongBases(n, z, x))

NextVerify == VerifyAny \/ VerifyLong

SpecVerify == InitVerify /\ [][NextVerify]_vars

\* C4: verify() raises VerificationError, and returns no pair, when the two
\* result sequences differ in length, the bases differ in length from the
\* results, a result is not 0 or 1, or a basis is not in {Z, X, Y}.
C4_VerifyRejectsBadInput ==
  (inp.op = "verify"
   /\ \/ Len(inp.prover_results) # Len(inp.verifier_results)
      \/ Len(inp.measurement_bases) # Len(inp.prover_results)
      \/ \E i \in 1..Len(inp.prover_results) : inp.prover_results[i] \notin {0, 1}
      \/ \E i \in 1..Len(inp.verifier_results) : inp.verifier_results[i] \notin {0, 1}
      \/ \E i \in 1..Len(inp.measurement_bases) :
           inp.measurement_bases[i] \notin {"Z", "X", "Y"})
    => /\ inp.out.err = "VerificationError"
       /\ inp.out.is_valid = FALSE
       /\ inp.out.chsh_value = NoChsh

\* equal lengths, binary results, and a basis W: rejected
C4_Witness ==
  /\ inp.op = "verify"
  /\ inp.prover_results = <<0, 1>>
  /\ inp.verifier_results = <<0, 1>>
  /\ inp.measurement_bases = <<"Z", "W">>
  /\ inp.out.err = "VerificationError"

ValidVerifyInput ==
  /\ inp.op = "verify"
  /\ Len(inp.prover_results) > 0
  /\ Len(inp.prover_results) = Len(inp.verifier_results)
  /\ Len(inp.prover_results) = Len(inp.measurement_bases)
  /\ \A i \in 1..Len(inp.prover_results) :
       /\ inp.prover_results[i] \in {0, 1}
       /\ inp.verifier_results[i] \in {0, 1}
       /\ inp.measurement_bases[i] \in {"Z", "X", "Y"}

InpAgree ==
  Cardinality({i \in 1..Len(inp.prover_results) :
                 inp.prover_results[i] = inp.verifier_results[i]})

\* C5: on valid input verify() returns is_valid = True exactly when the CHSH
\* value is strictly greater than the threshold and the fraction of indices
\* on which the two parties agree is strictly greater than 0.7.
C5_VerdictRule ==
  ValidVerifyInput
    => /\ inp.out.err = "none"
       /\ inp.out.is_valid
            <=> /\ inp.out.chsh_value.num * qezk.chsh_threshold.den
                     > qezk.chsh_threshold.num * inp.out.chsh_value.den
                /\ 10 * InpAgree > 7 * Len(inp.prover_results)

\* agreement exactly 0.7 with a CHSH value above the threshold: not valid
C5_Witness ==
  /\ ValidVerifyInput
  /\ 10 * InpAgree = 7 * Len(inp.prover_results)
  /\ RatLess(qezk.chsh_threshold, inp.out.chsh_value)
  /\ ~inp.out.is_valid

\* a CHSH value equal to the threshold with full agreement: not valid
C5_AtThreshold ==
  /\ ValidVerifyInput
  /\ InpAgree = Len(inp.prover_results)
  /\ RatEq(qezk.chsh_threshold, inp.out.chsh_value)
  /\ qezk.chsh_threshold.num > 0
  /\ ~inp.out.is_valid

\* a valid verdict
C5_Accepts == ValidVerifyInput /\ inp.out.is_valid

(***************************************************************************)
(* chsh_inequality_test on its own (SpecChsh).                             *)
(***************************************************************************)
CallChsh(alice_results, bob_results, alice_bases, bob_bases) ==
  /\ inp' = [op |-> "chsh", alice_results |-> alice_results,
             bob_results |-> bob_results, alice_bases |-> alice_bases,
             bob_bases |-> bob_bases,
             out |-> chsh_inequality_test(alice_results, bob_results,
                                          alice_bases, bob_bases),
             E |-> chsh_correlations(alice_results, bob_results,
                                     alice_bases, bob_bases)]
  /\ UNCHANGED <<qezk, rng, random_seed, pc, args, frame, ret, log, mlog, ref, sess, other, heap, mq, cache, net, conn, dist>>

\* every input up to MaxFullLen: results over {0,1}, bases over {Z,X,Y}
ChshFull ==
  /\ inp.op = "none"
  /\ \E n \in 0..MaxFullLen :
       \E ar \in [1..n -> {0, 1}], br \in [1..n -> {0, 1}],
          ab \in [1..n -> Bases], bb \in [1..n -> Bases] : CallChsh(ar, br, ab, bb)

\* longer inputs whose bases are Z or X on both sides
ChshZX ==
  /\ inp.op = "none"
  /\ \E n \in 1..MaxChshLen :
       \E br \in [1..n -> {0, 1}],
          ab \in [1..n -> {"Z", "X"}], bb \in [1..n -> {"Z", "X"}] :
         CallChsh(LongResults(n), br, ab, bb)

NextChsh == ChshFull \/ ChshZX

InitChsh == qezk = qezk_init(MaxChshLen, Rat(11, 5)) /\ rng = 1 /\ Quiet

SpecChsh == InitChsh /\ [][NextChsh]_vars

SessSetup(seed) ==
  /\ pc = "idle"
  /\ \E r \in {setup(qezk, seed, random_seed, rng)} :
        /\ rng' = r.rng
        /\ random_seed' = r.random_seed
        /\ sess' = IF r.err = "none"
                   THEN [NoSess EXCEPT !.stage = "setup", !.share = r.particles]
                   ELSE NoSess
  /\ UNCHANGED <<qezk, pc, args, frame, ret, log, mlog, ref, inp, other, heap, mq, cache, net, conn, dist>>

SessProver(statement, witness) ==
  /\ sess.stage = "setup"
  /\ \E r \in {prover_phase(statement, witness, sess.share, rng)} :
        /\ rng' = r.rng
        /\ sess' = IF r.err = "none"
                   THEN [sess EXCEPT !.stage = "prover", !.statement = statement,
                                     !.share = r.particles,
                                     !.pres = r.results, !.pbases = r.bases]
                   ELSE sess
  /\ UNCHANGED <<qezk, random_seed, pc, args, frame, ret, log, mlog, ref, inp, other, heap, mq, cache, net, conn, dist>>

\* the caller hands verifier_phase a bases sequence of its choice
SessVerifier(measurement_bases) ==
  /\ sess.stage = "prover"
  /\ \E r \in {verifier_phase(sess.statement, sess.share, measurement_bases, rng)} :
        /\ rng' = r.rng
        /\ sess' = IF r.err = "none"
                   THEN [sess EXCEPT
                           !.stage = "verifier", !.vres = r.results,
                           !.vbases = SubSeq(measurement_bases, 1, Len(r.results))]
                   ELSE sess
  /\ UNCHANGED <<qezk, random_seed, pc, args, frame, ret, log, mlog, ref, inp, other, heap, mq, cache, net, conn, dist>>

\* verify(prover_results, verifier_results, the prover's bases)
SessVerify ==
  /\ sess.stage = "verifier"
  /\ sess' = [sess EXCEPT !.stage = "verdict",
                          !.out = verify(qezk, sess.pres, sess.vres, sess.pbases)]
  /\ UNCHANGED <<qezk, rng, random_seed, pc, args, frame, ret, log, mlog, ref, inp, other, heap, mq, cache, net, conn, dist>>

\* the caller drops what it holds
SessDrop ==
  /\ sess.stage # "none"
  /\ sess' = NoSess
  /\ UNCHANGED <<qezk, rng, random_seed, pc, args, frame, ret, log, mlog, ref, inp, other, heap, mq, cache, net, conn, dist>>

ProveCall(statement, witness, seed) ==
  sess.stage = "none" /\ Call(statement, witness, seed)

NextPhases ==
  \/ \E sd \in Seeds : SessSetup(sd)
  \/ \E s \in Statements, w \in Witnesses : SessProver(s, w)
  \/ \E b \in SeqsUpTo(Bases \cup {"W"}, MaxPairs) : SessVerifier(b)
  \/ SessVerify
  \/ SessDrop
  \/ \E s \in Statements, w \in Witnesses, sd \in Seeds : ProveCall(s, w, sd)
  \/ DoSetup
  \/ DoProverPhase
  \/ DoVerifierPhase
  \/ DoVerify
  \/ Finish

SpecPhases == Init /\ [][NextPhases]_vars

\* C10: at every index the verifier measures in the basis the prover used,
\* which is the statement-derived basis and the one recorded in the Proof;
\* no run of the phase operations ends with a verdict computed from
\* measurements the two parties took in different bases at some index.
C10_SameBasisAtEveryIndex ==
  /\ (pc = "done" /\ ret.kind = "proof")
       => \A i \in 1..qezk.num_epr_pairs :
            /\ frame.verifier_bases[i] = frame.measurement_bases[i]
            /\ frame.measurement_bases[i] = BasisAt(Sha256(args.statement.val), i - 1)
            /\ ret.proof.measurement_bases[i] = frame.measurement_bases[i]
  /\ (sess.stage = "verdict" /\ sess.out.err = "none")
       => /\ Len(sess.vbases) = Len(sess.pbases)
          /\ \A i \in 1..Len(sess.pbases) :
               /\ sess.vbases[i] = sess.pbases[i]
               /\ sess.pbases[i] = BasisAt(Sha256(sess.statement.val), i - 1)

\* C10 for prove() alone: there the verifier's basis, the prover's basis, the
\* statement-derived basis and the recorded basis agree at every index
C10_InsideProve ==
  (pc = "done" /\ ret.kind = "proof")
    => \A i \in 1..qezk.num_epr_pairs :
         /\ frame.verifier_bases[i] = frame.measurement_bases[i]
         /\ frame.measurement_bases[i] = BasisAt(Sha256(args.statement.val), i - 1)
         /\ ret.proof.measurement_bases[i] = frame.measurement_bases[i]

(***************************************************************************)
(* Two prove() calls in two threads of one process.  Each call is the      *)
(* sequence of its four phases; the threads are switched between phases.   *)
(* Both calls draw from the one generator of the numpy module.             *)
(***************************************************************************)
\* prove() run from start to end with nothing else running; s is where the
\* generator stands when the call starts
prove(self, statement, witness, seed, s) ==
  LET r0 == [err |-> "ProtocolError", random_seed |-> PyNoneInt, rng |-> s]
      r1 == setup(self, seed, PyNoneInt, s)
      r2 == prover_phase(statement, witness, r1.particles, r1.rng)
      r3 == verifier_phase(statement, r2.particles, r2.bases, r2.rng)
      r4 == verify(self, r2.results, r3.results, r2.bases)
      raise(e, at) == [kind |-> "raise", err |-> ProveRaise(e), proof |-> NoProof,
                       rng |-> at.rng]
  IN IF ~InputOk(statement, witness) THEN raise("ProtocolError", r0)
     ELSE IF r1.err # "none" THEN raise(r1.err, r1)
     ELSE IF r2.err # "none" THEN raise(r2.err, r2)
     ELSE IF r3.err # "none" THEN raise(r3.err, r3)
     ELSE IF r4.err # "none" THEN raise(r4.err, r3)
     ELSE [kind |-> "proof", err |-> "none",
           proof |-> QEZKProof(r2.results, r3.results, r2.bases,
                               r4.chsh_value, r4.is_valid, statement.val),
           rng |-> r3.rng]

ThreadSeeds == {PyInt(1), PyInt(2)}

ThreadStatements == {PyStr("A"), PyStr("1")}

ThreadWitnesses == {PyWit(<<>>), PyWit(<<"1">>)}

\* the second thread enters prove(statement, witness, seed)
OtherCall(statement, witness, seed) ==
  /\ other.pc = "idle"
  /\ other' = [other EXCEPT
                !.args = [statement |-> statement, witness |-> witness,
                          seed |-> seed],
                !.pc = IF InputOk(statement, witness)
                       THEN PhaseAfter("check") ELSE "done",
                !.ret = IF InputOk(statement, witness) THEN NoRet
                        ELSE [kind |-> "raise", err |-> ProveRaise("ProtocolError"),
                              proof |-> NoProof]]
  /\ UNCHANGED <<qezk, rng, random_seed, pc, args, frame, ret, log, mlog, ref, sess, inp, heap, mq, cache, net, conn, dist>>

\* how a phase of the second thread ends: on to the next phase, or raise
OtherAfter(err, fr) ==
  IF err = "none"
  THEN [other EXCEPT !.pc = PhaseAfter(other.pc), !.frame = fr]
  ELSE [other EXCEPT !.pc = "done",
                     !.ret = [kind |-> "raise", err |-> ProveRaise(err),
                              proof |-> NoProof]]

OtherSetup ==
  /\ other.pc = "setup"
  /\ \E r \in {setup(qezk, other.args.seed, random_seed, rng)} :
        /\ rng' = r.rng
        /\ random_seed' = r.random_seed
        /\ other' = OtherAfter(r.err, [other.frame EXCEPT !.particles = r.particles])
  /\ UNCHANGED <<qezk, pc, args, frame, ret, log, mlog, ref, sess, inp, heap, mq, cache, net, conn, dist>>

OtherProverPhase ==
  /\ other.pc = "prover_phase"
  /\ \E r \in {prover_phase(other.args.statement, other.args.witness,
                           other.frame.particles, rng)} :
        /\ rng' = r.rng
        /\ other' = OtherAfter(r.err, [other.frame EXCEPT
                                        !.particles = r.particles,
                                        !.prover_results = r.results,
                                        !.measurement_bases = r.bases])
  /\ UNCHANGED <<qezk, random_seed, pc, args, frame, ret, log, mlog, ref, sess, inp, heap, mq, cache, net, conn, dist>>

OtherVerifierPhase ==
  /\ other.pc = "verifier_phase"
  /\ \E r \in {verifier_phase(other.args.statement, other.frame.particles,
                             other.frame.measurement_bases, rng)} :
        /\ rng' = r.rng
        /\ other' = OtherAfter(r.err, [other.frame EXCEPT
                                        !.verifier_results = r.results,
                                        !.verifier_bases =
                                          SubSeq(other.frame.measurement_bases,
                                                 1, Len(r.results))])
  /\ UNCHANGED <<qezk, random_seed, pc, args, frame, ret, log, mlog, ref, sess, inp, heap, mq, cache, net, conn, dist>>

OtherVerify ==
  /\ other.pc = "verify"
  /\ \E r \in {verify(qezk, other.frame.prover_results,
                     other.frame.verifier_results,
                     other.frame.measurement_bases)} :
        other' = IF r.err = "none"
                 THEN [other EXCEPT
                         !.pc = PhaseAfter(other.pc),
                         !.ret = [kind |-> "proof", err |-> "none",
                                  proof |-> QEZKProof(other.frame.prover_results,
                                                      other.frame.verifier_results,
                                                      other.frame.measurement_bases,
                                                      r.chsh_value, r.is_valid,
                                                      other.args.statement.val)]]
                 ELSE OtherAfter(r.err, other.frame)
  /\ UNCHANGED <<qezk, rng, random_seed, pc, args, frame, ret, log, mlog, ref, sess, inp, heap, mq, cache, net, conn, dist>>

\* both threads have returned and the caller starts over
ThreadsJoin ==
  /\ pc = "done"
  /\ other.pc = "done"
  /\ pc' = "idle"
  /\ args' = NoArgs
  /\ frame' = EmptyFrame
  /\ ret' = NoRet
  /\ log' = <<>>
  /\ mlog' = <<>>
  /\ other' = NoOther
  /\ UNCHANGED <<qezk, rng, random_seed, ref, sess, inp, heap, mq, cache, net, conn, dist>>

NextThreads ==
  \/ \E st \in ThreadStatements, w \in ThreadWitnesses, sd \in ThreadSeeds :
        Call(st, w, sd)
  \/ DoSetup \/ DoProverPhase \/ DoVerifierPhase \/ DoVerify
  \/ \E st \in ThreadStatements, w \in ThreadWitnesses, sd \in ThreadSeeds :
        OtherCall(st, w, sd)
  \/ OtherSetup \/ OtherProverPhase \/ OtherVerifierPhase \/ OtherVerify
  \/ ThreadsJoin

SpecThreads == Init /\ [][NextThreads]_vars

\* a call of either thread has ended with the outcome it has when run alone
AsAlone(t) ==
  t.pc = "done" =>
    \E r \in {prove(qezk, t.args.statement, t.args.witness, t.args.seed, rng)} :
       t.ret = [kind |-> r.kind, err |-> r.err, proof |-> r.proof]

\* C11 as stated: concurrent prove() calls, each with its own seed and their
\* phases interleaved in any order, each return exactly the Proof they return
\* when run alone with that seed
C11_ConcurrentAsAlone ==
  /\ AsAlone([pc |-> pc, args |-> args, ret |-> ret])
  /\ AsAlone(other)

\* C11 for calls that do not overlap: a call that ran from start to end while
\* the other thread was outside prove() returns what it returns alone
C11_SequentialAsAlone ==
  (pc = "done" /\ other.pc = "idle") =>
     AsAlone([pc |-> pc, args |-> args, ret |-> ret])

(***************************************************************************)
(* Completeness of prove() with the default threshold.                     *)
(***************************************************************************)
\* chsh_threshold: float = 2.2
DefaultThreshold == Rat(11, 5)

\* C12 as stated (its weakest reading): on a system with the default
\* threshold there are a statement, a witness and a seed for which prove()
\* returns a Proof with is_valid = True
C12_SomeValidProof ==
  qezk.chsh_threshold = DefaultThreshold =>
    \E st \in Statements, w \in Witnesses, sd \in Seeds, s \in RngStates :
       LET r == prove(qezk, st, w, sd, s)
       IN r.kind = "proof" /\ r.proof.is_valid

\* what holds instead: with the default threshold no prove() call, seeded or
\* not, returns a Proof with is_valid = True
C12_NeverValidAtDefault ==
  (qezk.chsh_threshold = DefaultThreshold /\ ret.kind = "proof")
     => ~ret.proof.is_valid

(***************************************************************************)
(* A caller that keeps a Proof while the system goes on working.  Lists    *)
(* are objects: heap.lists[a] is the content of the list at address a, a   *)
(* Proof holds the addresses of its three lists.                           *)
(***************************************************************************)
MaxLists == 6

\* a buffer of the system is filled too: the object three lists back
NewListReused(lists, content) ==
  [lists |-> IF Len(lists) < 3 THEN Append(lists, content)
             ELSE Append([lists EXCEPT ![Len(lists) - 2] = content], content),
   addr |-> Len(lists) + 1]

\* a list that starts as [] in the call and is filled there is a new object
NewList(lists, content) ==
  [lists |-> Append(lists, content), addr |-> Len(lists) + 1]

\* the list objects the protocol object holds on to: its fields are two
\* numbers and four helper objects without list fields
SystemLists(self) == {}

\* the Proof a caller holds, read through the addresses of its lists
ProofAt(h) ==
  QEZKProof(h.lists[h.proof.prover_results], h.lists[h.proof.verifier_results],
            h.lists[h.proof.measurement_bases], h.proof.chsh_value,
            h.proof.is_valid, h.proof.statement)

\* prove(): the prover's results, the bases and the verifier's results are
\* three new lists; the caller keeps the first Proof it gets
KeptProve(statement, witness, seed) ==
  /\ Len(heap.lists) + 3 <= MaxLists
  /\ \E r \in {prove(qezk, statement, witness, seed, rng)} :
       /\ rng' = r.rng
       /\ random_seed' = IF InputOk(statement, witness) /\ seed.type = "int"
                         THEN seed ELSE random_seed
       /\ r.kind = "proof"
       /\ \E l1 \in {NewList(heap.lists, r.proof.prover_results)} :
          \E l2 \in {NewList(l1.lists, r.proof.measurement_bases)} :
          \E l3 \in {NewList(l2.lists, r.proof.verifier_results)} :
            heap' = IF heap.kept
                    THEN [heap EXCEPT !.lists = l3.lists]
                    ELSE [lists |-> l3.lists, kept |-> TRUE,
                          proof |-> [prover_results |-> l1.addr,
                                     verifier_results |-> l3.addr,
                                     measurement_bases |-> l2.addr,
                                     chsh_value |-> r.proof.chsh_value,
                                     is_valid |-> r.proof.is_valid,
                                     statement |-> r.proof.statement],
                          was |-> r.proof]
  /\ UNCHANGED <<qezk, pc, args, frame, ret, log, mlog, ref, sess, inp, other, mq, cache, net, conn, dist>>

\* prover_phase() called directly: two new lists, results and bases
KeptProverPhase(statement, witness) ==
  /\ Len(heap.lists) + 2 <= MaxLists
  /\ \E r \in {prover_phase(statement, witness, BellShare(qezk.num_epr_pairs), rng)} :
       /\ rng' = r.rng
       /\ r.err = "none"
       /\ \E l1 \in {NewList(heap.lists, r.results)} :
            heap' = [heap EXCEPT !.lists = NewList(l1.lists, r.bases).lists]
  /\ UNCHANGED <<qezk, random_seed, pc, args, frame, ret, log, mlog, ref, sess, inp, other, mq, cache, net, conn, dist>>

\* verifier_phase() called directly with the kept Proof's own bases: they are
\* read; the results are a new list
KeptVerifierPhase ==
  /\ heap.kept
  /\ Len(heap.lists) + 1 <= MaxLists
  /\ \E r \in {verifier_phase(PyStr(heap.proof.statement),
                             BellShare(qezk.num_epr_pairs),
                             heap.lists[heap.proof.measurement_bases], rng)} :
       /\ rng' = r.rng
       /\ heap' = [heap EXCEPT !.lists = NewList(heap.lists, r.results).lists]
  /\ UNCHANGED <<qezk, random_seed, pc, args, frame, ret, log, mlog, ref, sess, inp, other, mq, cache, net, conn, dist>>

\* verify() called with the kept Proof's own lists: it reads them and builds
\* its verdict from numbers of its own
KeptVerify ==
  /\ heap.kept
  /\ inp' = [op |-> "verify",
             out |-> verify(qezk, heap.lists[heap.proof.prover_results],
                            heap.lists[heap.proof.verifier_results],
                            heap.lists[heap.proof.measurement_bases])]
  /\ UNCHANGED <<qezk, rng, random_seed, pc, args, frame, ret, log, mlog, ref, sess, other, heap, mq, cache, net, conn, dist>>

NextKept ==
  \/ \E st \in ThreadStatements, w \in ThreadWitnesses,
        sd \in {PyNoneInt, PyInt(1)} : KeptProve(st, w, sd)
  \/ \E st \in ThreadStatements, w \in ThreadWitnesses : KeptProverPhase(st, w)
  \/ \E sd \in {PyNoneInt, PyInt(1)} : OpSetup(sd)
  \/ KeptVerifierPhase
  \/ KeptVerify

SpecKept == Init /\ [][NextKept]_vars

\* C13: a Proof a caller holds reads as it did when prove() returned it,
\* whatever the system did since; its three lists are three objects of its
\* own and none of them is one the system holds on to
C13_ProofUnchanged ==
  heap.kept =>
    /\ ProofAt(heap) = heap.was
    /\ Cardinality({heap.proof.prover_results, heap.proof.verifier_results,
                    heap.proof.measurement_bases}) = 3
    /\ {heap.proof.prover_results, heap.proof.verifier_results,
        heap.proof.measurement_bases} \cap SystemLists(qezk) = {}

\* a Proof is held and the system has since run further calls that filled
\* new lists, the first with other results than the Proof's, and verify() on
\* the Proof's own lists
C13_Witness ==
  /\ heap.kept
  /\ Len(heap.lists) = MaxLists
  /\ inp.op = "verify"
  /\ heap.proof.prover_results = 1
  /\ heap.lists[4] # heap.lists[1]

(***************************************************************************)
(* MessageQueue called from several threads.  A method is the steps of its *)
(* body: waiting for the lock, taking it, the test, the change.            *)
(***************************************************************************)
MaxQueue == 2

MaxMsgs == 3

QThreads == {1, 2}

QOps == {"enqueue", "dequeue", "size", "clear"}

IdleThread ==
  [pc |-> "idle", op |-> "none", msg |-> 0, seen |-> 0,
   ret |-> [kind |-> "none", val |-> 0]]

\* MessageQueue.__init__; put and got list the messages appended (and not
\* cleared) and the messages popped, in the order that happened
MessageQueue(max_size) ==
  [queue |-> <<>>, max_size |-> max_size, lock |-> 0,
   th |-> [t \in QThreads |-> IdleThread], next |-> 1,
   put |-> <<>>, got |-> <<>>]

\* a lock that lets every thread in
LockAlwaysFree(q) == TRUE

\* threading.Lock: free when no thread holds it
LockFree(q) == q.lock = 0

\* thread t calls a method; an enqueue brings a message of its own
MqCall(t, op) ==
  /\ mq.th[t].pc = "idle"
  /\ op = "enqueue" => mq.next <= MaxMsgs
  /\ mq' = [mq EXCEPT
              !.th[t] = [IdleThread EXCEPT !.pc = "lock", !.op = op,
                           !.msg = IF op = "enqueue" THEN mq.next ELSE 0],
              !.next = IF op = "enqueue" THEN mq.next + 1 ELSE mq.next]
  /\ UNCHANGED <<qezk, rng, random_seed, pc, args, frame, ret, log, mlog, ref, sess, inp, other, heap, cache, net, conn, dist>>

\* with self.lock: the thread enters when the lock is free
MqAcquire(t) ==
  /\ mq.th[t].pc = "lock"
  /\ LockFree(mq)
  /\ mq' = [mq EXCEPT !.lock = t, !.th[t].pc = "body"]
  /\ UNCHANGED <<qezk, rng, random_seed, pc, args, frame, ret, log, mlog, ref, sess, inp, other, heap, cache, net, conn, dist>>

\* the method of thread t returns r and leaves the with block
MqLeave(q, t, r) == [q EXCEPT !.lock = 0, !.th[t].pc = "ret", !.th[t].ret = r]

\* MessageQueue.enqueue: the test of the length, then the append
enqueue(t) ==
  /\ mq.th[t].op = "enqueue"
  /\ \/ /\ mq.th[t].pc = "body"
        /\ \E q \in {[mq EXCEPT !.th[t].seen = Len(mq.queue)]} :
             mq' = IF Len(mq.queue) >= mq.max_size
                   THEN MqLeave(q, t, [kind |-> "bool", val |-> 0])
                   ELSE [q EXCEPT !.th[t].pc = "append"]
     \/ /\ mq.th[t].pc = "append"
        /\ mq' = MqLeave([mq EXCEPT !.queue = Append(mq.queue, mq.th[t].msg),
                                    !.put = Append(mq.put, mq.th[t].msg)],
                         t, [kind |-> "bool", val |-> 1])
  /\ UNCHANGED <<qezk, rng, random_seed, pc, args, frame, ret, log, mlog, ref, sess, inp, other, heap, cache, net, conn, dist>>

\* MessageQueue.dequeue: the test for a message, then pop(0)
dequeue(t) ==
  /\ mq.th[t].op = "dequeue"
  /\ \/ /\ mq.th[t].pc = "body"
        /\ \E q \in {[mq EXCEPT !.th[t].seen = Len(mq.queue)]} :
             mq' = IF Len(mq.queue) > 0
                   THEN [q EXCEPT !.th[t].pc = "pop"]
                   ELSE MqLeave(q, t, [kind |-> "None", val |-> 0])
     \/ /\ mq.th[t].pc = "pop"
        /\ mq' = IF Len(mq.queue) = 0
                 THEN MqLeave(mq, t, [kind |-> "IndexError", val |-> 0])
                 ELSE MqLeave([mq EXCEPT !.queue = Tail(mq.queue),
                                         !.got = Append(mq.got, Head(mq.queue))],
                              t, [kind |-> "msg", val |-> Head(mq.queue)])
  /\ UNCHANGED <<qezk, rng, random_seed, pc, args, frame, ret, log, mlog, ref, sess, inp, other, heap, cache, net, conn, dist>>

\* MessageQueue.size
size(t) ==
  /\ mq.th[t].op = "size"
  /\ mq.th[t].pc = "body"
  /\ mq' = MqLeave(mq, t, [kind |-> "int", val |-> Len(mq.queue)])
  /\ UNCHANGED <<qezk, rng, random_seed, pc, args, frame, ret, log, mlog, ref, sess, inp, other, heap, cache, net, conn, dist>>

\* MessageQueue.clear; seen is the length the queue is left with
clear(t) ==
  /\ mq.th[t].op = "clear"
  /\ mq.th[t].pc = "body"
  /\ mq' = MqLeave([mq EXCEPT !.queue = <<>>, !.put = mq.got, !.th[t].seen = 0],
                   t, [kind |-> "None", val |-> 0])
  /\ UNCHANGED <<qezk, rng, random_seed, pc, args, frame, ret, log, mlog, ref, sess, inp, other, heap, cache, net, conn, dist>>

\* the caller has its result and is free for the next call
MqReturn(t) ==
  /\ mq.th[t].pc = "ret"
  /\ mq' = [mq EXCEPT !.th[t] = IdleThread]
  /\ UNCHANGED <<qezk, rng, random_seed, pc, args, frame, ret, log, mlog, ref, sess, inp, other, heap, cache, net, conn, dist>>

InitQueue ==
  /\ qezk = qezk_init(1, DefaultThreshold)
  /\ rng = 1
  /\ random_seed = PyNoneInt
  /\ pc = "idle"
  /\ args = NoArgs
  /\ frame = EmptyFrame
  /\ ret = NoRet
  /\ log = <<>>
  /\ mlog = <<>>
  /\ ref = NoRef
  /\ sess = NoSess
  /\ inp = NoInp
  /\ other = NoOther
  /\ heap = NoHeap
  /\ \E n \in 0..MaxQueue : mq = MessageQueue(n)
  /\ cache = NoCache
  /\ net = NoNet
  /\ conn = NoConn
  /\ dist = NoDist

NextQueue ==
  \E t \in QThreads :
     \/ \E op \in QOps : MqCall(t, op)
     \/ MqAcquire(t)
     \/ enqueue(t) \/ dequeue(t) \/ size(t) \/ clear(t)
     \/ MqReturn(t)

SpecQueue == InitQueue /\ [][NextQueue]_vars

\* what a method that has returned gave back, against the length it found
QueueReturned(t) ==
  LET th == mq.th[t]
  IN th.pc = "ret" =>
       /\ th.op = "enqueue" =>
            /\ th.ret.kind = "bool"
            /\ th.ret.val = 1 <=> th.seen < mq.max_size
            /\ th.ret.val = 0 <=> th.seen = mq.max_size
       /\ th.op = "dequeue" =>
            /\ th.ret.kind \in {"msg", "None"}
            /\ th.ret.kind = "None" <=> th.seen = 0
            /\ th.ret.kind = "msg" =>
                 \E i \in 1..Len(mq.got) : mq.got[i] = th.ret.val
       /\ th.op = "size" => th.ret.kind = "int" /\ th.ret.val <= mq.max_size
       /\ th.op = "clear" => th.seen = 0

\* C14: under any interleaving of the callers the queue never holds more than
\* max_size messages, messages leave in the order they were appended,
\* enqueue returns True exactly when fewer than max_size were held, dequeue
\* returns None exactly when the queue was empty, size() is at most max_size
\* and clear() leaves the queue empty
C14_BoundedFifo ==
  /\ Len(mq.queue) <= mq.max_size
  /\ mq.got \o mq.queue = mq.put
  /\ \A t \in QThreads : QueueReturned(t)

\* one thread was refused by a full queue while two messages have already
\* left it in order through the other thread's dequeue
C14_Witness ==
  /\ mq.max_size > 0
  /\ Len(mq.got) >= 2
  /\ \E t \in QThreads :
       /\ mq.th[t].pc = "ret" /\ mq.th[t].op = "enqueue" /\ mq.th[t].ret.val = 0
  /\ \E t \in QThreads : mq.th[t].pc \in {"lock", "body"}

(***************************************************************************)
(* WitnessEncoder called directly.                                         *)
(***************************************************************************)
MaxBases == 34

MaxWitnessLen == 7

EncStatements == {PyStr("A"), PyStr("1"), PyStr(""), PyNoneStr}

CallBases(statement, num_measurements) ==
  /\ inp.op = "none"
  /\ inp' = [op |-> "statement_to_bases", statement |-> statement,
             num_measurements |-> num_measurements,
             out |-> statement_to_bases(statement, num_measurements)]
  /\ UNCHANGED <<qezk, rng, random_seed, pc, args, frame, ret, log, mlog, ref, sess, other, heap, mq, cache, net, conn, dist>>

CallCircuit(witness) ==
  /\ inp.op = "none"
  /\ inp' = [op |-> "witness_to_quantum_circuit", witness |-> witness,
             out |-> witness_to_quantum_circuit(witness)]
  /\ UNCHANGED <<qezk, rng, random_seed, pc, args, frame, ret, log, mlog, ref, sess, other, heap, mq, cache, net, conn, dist>>

EncBases ==
  /\ inp.op = "none"
  /\ \E st \in EncStatements, n \in 0..MaxBases : CallBases(st, n)

EncCircuit ==
  /\ inp.op = "none"
  /\ \E w \in SeqsUpTo({"0", "1", "2"}, MaxWitnessLen) : CallCircuit(w)

NextEncoder == EncBases \/ EncCircuit

SpecEncoder == InitChsh /\ [][NextEncoder]_vars

\* bit k of a byte, bit 0 the lowest
ByteBit(byte, k) == (byte \div Pow2(k)) % 2

\* the 2-bit field of index i: byte (i mod 32) of the digest, bit offset 2*(i mod 4)
FieldOf(digest, i) ==
  ByteBit(digest[(i % 32) + 1], 2 * (i % 4))
  + 2 * ByteBit(digest[(i % 32) + 1], 2 * (i % 4) + 1)

\* C15: statement_to_bases(statement, count) with count >= 1 returns count
\* bases, the basis of 0-based index i being Z, X, Y, Z for the values 0, 1,
\* 2, 3 of the 2-bit field at bit offset 2*(i mod 4) of digest byte (i mod 32)
C15_BasesFromDigest ==
  (inp.op = "statement_to_bases" /\ inp.statement.type = "str"
     /\ inp.num_measurements >= 1) =>
    /\ inp.out.err = "none"
    /\ Len(inp.out.bases) = inp.num_measurements
    /\ \A i \in 0..(inp.num_measurements - 1) :
         inp.out.bases[i + 1] =
           <<"Z", "X", "Y", "Z">>[FieldOf(Sha256(inp.statement.val), i) + 1]

\* a call long enough to come back to digest byte 0, with a field of value 3
\* mapped to Z and a field of value 2 mapped to Y
C15_Witness ==
  /\ inp.op = "statement_to_bases"
  /\ inp.out.err = "none"
  /\ inp.num_measurements > 32
  /\ inp.out.bases[33] = inp.out.bases[1]
  /\ \E i \in 0..(inp.num_measurements - 1) :
       FieldOf(Sha256(inp.statement.val), i) = 3 /\ inp.out.bases[i + 1] = "Z"
  /\ \E i \in 0..(inp.num_measurements - 1) : inp.out.bases[i + 1] = "Y"

\* bit j of a witness as a number, 0 past its end
WitnessBit(w, j) == IF j <= Len(w) /\ w[j] = "1" THEN 1 ELSE 0

\* C16: for a bit string of length n the circuit has ceil(n/3) gate names,
\* the k-th being entry (v mod 7) of [I, X, Y, Z, H, S, T] for the value v of
\* the k-th 3-bit group read highest bit first and padded with zeros on the
\* right; the empty witness gives the empty circuit
C16_GatesFromGroups ==
  (inp.op = "witness_to_quantum_circuit"
     /\ \A j \in 1..Len(inp.witness) : inp.witness[j] \in {"0", "1"}) =>
    /\ inp.out.err = "none"
    /\ 3 * Len(inp.out.gates) >= Len(inp.witness)
    /\ 3 * Len(inp.out.gates) < Len(inp.witness) + 3
    /\ \A k \in 1..Len(inp.out.gates) :
         inp.out.gates[k] =
           <<"I", "X", "Y", "Z", "H", "S", "T">>[
              ((4 * WitnessBit(inp.witness, 3 * k - 2)
                + 2 * WitnessBit(inp.witness, 3 * k - 1)
                + WitnessBit(inp.witness, 3 * k)) % 7) + 1]

\* a witness with a group 111 (gate I), a group 100 (gate H) and a short last group
C16_Witness ==
  /\ inp.op = "witness_to_quantum_circuit"
  /\ inp.out.err = "none"
  /\ Len(inp.witness) > 6
  /\ Len(inp.witness) % 3 # 0
  /\ SubSeq(inp.witness, 1, 3) = <<"1", "1", "1">>
  /\ inp.out.gates[1] = "I"
  /\ SubSeq(inp.witness, 4, 6) = <<"1", "0", "0">>
  /\ inp.out.gates[2] = "H"
  /\ inp.witness[Len(inp.witness)] = "1"

(***************************************************************************)
(* The cells of the CHSH table (SpecChsh).                                 *)
(***************************************************************************)
\* the indices of a direct call where alice measured in a and bob in b
SamplesOf(a, b) ==
  {i \in 1..Len(inp.alice_bases) : inp.alice_bases[i] = a /\ inp.bob_bases[i] = b}

\* agreements minus disagreements over a set of indices
Balance(idx) ==
  Cardinality({i \in idx : inp.alice_results[i] = inp.bob_results[i]})
  - Cardinality({i \in idx : inp.alice_results[i] # inp.bob_results[i]})

\* x - y and x + y on rationals, |x|
RatSub(x, y) == [num |-> x.num * y.den - y.num * x.den, den |-> x.den * y.den]
RatAdd(x, y) == [num |-> x.num * y.den + y.num * x.den, den |-> x.den * y.den]
RatAbs(x) == [num |-> IF x.num < 0 THEN 0 - x.num ELSE x.num, den |-> x.den]

\* C17: only the indices with Z or X on both sides count; each cell is
\* (agreements - disagreements) / samples over its indices, 0 without a
\* sample; the value is |E[Z,Z] - E[Z,X] + E[X,Z] + E[X,X]|
C17_ChshCells ==
  inp.op = "chsh" =>
    /\ \A a \in {"Z", "X"}, b \in {"Z", "X"} :
         /\ inp.E[a, b].den > 0
         /\ IF SamplesOf(a, b) = {}
            THEN inp.E[a, b].num = 0
            ELSE inp.E[a, b].num * Cardinality(SamplesOf(a, b))
                   = Balance(SamplesOf(a, b)) * inp.E[a, b].den
    /\ RatEq(inp.out,
             RatAbs(RatAdd(RatAdd(RatSub(inp.E["Z", "Z"], inp.E["Z", "X"]),
                                  inp.E["X", "Z"]),
                           inp.E["X", "X"])))

\* a call with a Y basis on one side of some index, an empty cell and a
\* disagreement in cell (Z, X), which enters the value with the minus sign
C17_Witness ==
  /\ inp.op = "chsh"
  /\ \E i \in 1..Len(inp.alice_bases) :
       inp.alice_bases[i] = "Y" /\ inp.bob_bases[i] = "Z"
  /\ SamplesOf("Z", "Z") = {}
  /\ SamplesOf("Z", "X") # {}
  /\ Balance(SamplesOf("Z", "X")) < 0
  /\ RatEq(inp.out, Rat(1, 1))

(***************************************************************************)
(* BellMeasurement.measure called directly.                                *)
(***************************************************************************)
MaxGates == 2

\* the state vector with amplitude 1 at index i (1-based) and 0 elsewhere
BasisState(i) == [v |-> [j \in 1..4 |-> IF j = i THEN ROne ELSE RZero], k |-> 0]

\* basis states and Bell states, after up to MaxGates gates on qubit 0
MeasureStates ==
  {apply_circuit(st, gs) :
     st \in {BasisState(i) : i \in 1..4}
            \cup {create_bell_state(ty) : ty \in StateTypes},
     gs \in SeqsUpTo({gate_names[g] : g \in 1..Len(gate_names)}, MaxGates)}

\* one call: an outcome and one draw, or ValueError and no draw
CallMeasure(state, basis) ==
  /\ inp.op = "none"
  /\ rng' = IF basis \in Bases THEN RngNext(rng) ELSE rng
  /\ inp' = [op |-> "measure", state |-> state, basis |-> basis,
             draw |-> RngNext(rng),
             out |-> measure(state, basis, RngNext(rng))]
  /\ UNCHANGED <<qezk, random_seed, pc, args, frame, ret, log, mlog, ref, sess, other, heap, mq, cache, net, conn, dist>>

NextMeasure ==
  /\ inp.op = "none"
  /\ \E st \in MeasureStates, b \in Bases \cup {"W"} : CallMeasure(st, b)

InitMeasure == qezk = qezk_init(1, DefaultThreshold) /\ rng \in RngStates /\ Quiet

SpecMeasure == InitMeasure /\ [][NextMeasure]_vars

\* the indices of the amplitudes in which the first qubit is 0, the first
\* qubit being the one apply_gate(state, gate, 0) acts on: X on that qubit
\* takes such a basis state to one further up
FirstQubitZero ==
  {i \in 1..4 : \E j \in (i + 1)..4 :
                  apply_gate(BasisState(i), GateX, 0) = BasisState(j)}

\* the sum of the squared magnitudes of the amplitudes at the indices idx
ProbOver(state, idx) ==
  [p |-> IF idx = {} THEN 0
         ELSE LET f[S \in SUBSET idx] ==
                    IF S = {} THEN 0
                    ELSE LET i == CHOOSE x \in S : TRUE
                         IN AbsSq(state.v[i]).p + f[S \ {i}]
              IN f[idx],
   q |-> IF idx = {} THEN 0
         ELSE LET g[S \in SUBSET idx] ==
                    IF S = {} THEN 0
                    ELSE LET i == CHOOSE x \in S : TRUE
                         IN AbsSq(state.v[i]).q + g[S \ {i}]
              IN g[idx],
   k |-> state.k]

\* C18 as stated: measure(state, Z) returns 0 exactly when its one draw is
\* below the sum of the squared magnitudes of the two amplitudes in which
\* the first qubit (the one apply_gate(state, op, 0) acts on) is 0
C18_MeasuresFirstQubit ==
  (inp.op = "measure" /\ inp.basis = "Z") =>
    /\ inp.out \in {0, 1}
    /\ inp.out = 0 <=> DrawBelow(inp.draw, ProbOver(inp.state, FirstQubitZero))

\* what holds instead: the probability is taken over the amplitudes 0 and 2,
\* those in which the second qubit is 0; one draw is consumed
C18_MeasuresSecondQubit ==
  (inp.op = "measure" /\ inp.basis = "Z") =>
    /\ inp.out \in {0, 1}
    /\ FirstQubitZero = {1, 2}
    /\ inp.out = 0 <=> DrawBelow(inp.draw, ProbOver(inp.state, {1, 3}))
    /\ inp.draw = rng

C20_ShareLeftAsSetup ==
  /\ (pc \in {"verifier_phase", "verify", "done"} /\ frame.particles # <<>>)
       => frame.particles = BellShare(qezk.num_epr_pairs)
  /\ sess.stage \in {"prover", "verifier", "verdict"}
       => sess.share = BellShare(qezk.num_epr_pairs)

\* the prover has measured with the witness 1 (gate H), which takes a Bell
\* state to another state, and the verifier is about to measure
C20_Witness ==
  /\ pc = "verifier_phase"
  /\ args.witness = PyWit(<<"1">>)
  /\ witness_to_quantum_circuit(args.witness.val).gates = <<"H">>
  /\ frame.particles = BellShare(qezk.num_epr_pairs)
  /\ apply_circuit(frame.particles[1], <<"H">>) # frame.particles[1]

(***************************************************************************)
(* BellMeasurement.bell_state_measurement (SpecBell).                      *)
(***************************************************************************)
\* the complex conjugate of an amplitude numerator
RConj(x) == <<x[1], 0 - x[4], 0 - x[3], 0 - x[2]>>

\* the dict bell_states in insertion order; the labels are written Phi+,
\* Phi-, Psi+, Psi- for the Greek letters with superscript signs
bell_states ==
  << [name |-> "Phi+", v |-> <<ROne, RZero, RZero, ROne>>, k |-> 1],
     [name |-> "Phi-", v |-> <<ROne, RZero, RZero, RNeg(ROne)>>, k |-> 1],
     [name |-> "Psi+", v |-> <<RZero, ROne, ROne, RZero>>, k |-> 1],
     [name |-> "Psi-", v |-> <<RZero, ROne, RNeg(ROne), RZero>>, k |-> 1] >>

\* np.abs(np.vdot(bell_state, state))**2 as (p + q*sqrt(2)) / 2^k
Overlap(bell_state, state) ==
  LET z == RAdd(RAdd(RMul(RConj(bell_state.v[1]), state.v[1]),
                     RMul(RConj(bell_state.v[2]), state.v[2])),
                RAdd(RMul(RConj(bell_state.v[3]), state.v[3]),
                     RMul(RConj(bell_state.v[4]), state.v[4])))
  IN [p |-> AbsSq(z).p, q |-> AbsSq(z).q, k |-> bell_state.k + state.k]

\* x > y for two overlaps of the same state (equal k)
OverlapGreater(x, y) ==
  LET A == x.p - y.p
      B == x.q - y.q
  IN \/ A > 0 /\ B >= 0
     \/ A >= 0 /\ B > 0
     \/ A > 0 /\ B < 0 /\ A * A > 2 * B * B
     \/ A < 0 /\ B > 0 /\ A * A < 2 * B * B

\* max(overlaps, key=overlaps.get): the first key no later key exceeds and
\* that exceeds every earlier one
bell_state_measurement(state) ==
  LET overlaps == [j \in 1..Len(bell_states) |-> Overlap(bell_states[j], state)]
      best == CHOOSE j \in 1..Len(bell_states) :
                /\ \A i \in 1..(j - 1) : OverlapGreater(overlaps[j], overlaps[i])
                /\ \A i \in (j + 1)..Len(bell_states) :
                     ~OverlapGreater(overlaps[i], overlaps[j])
  IN [name |-> bell_states[best].name, prob |-> overlaps[best]]

\* one call of create_bell_state
CallCreate(state_type) ==
  /\ inp.op = "none"
  /\ inp' = [op |-> "create", state_type |-> state_type,
             state |-> create_bell_state(state_type)]
  /\ UNCHANGED <<qezk, rng, random_seed, pc, args, frame, ret, log, mlog, ref, sess, other, heap, mq, cache, net, conn, dist>>

\* bell_state_measurement of the state create_bell_state returned
CallClassify ==
  /\ inp.op = "create"
  /\ inp' = [op |-> "classify", state_type |-> inp.state_type,
             state |-> inp.state, out |-> bell_state_measurement(inp.state)]
  /\ UNCHANGED <<qezk, rng, random_seed, pc, args, frame, ret, log, mlog, ref, sess, other, heap, mq, cache, net, conn, dist>>

\* bell_state_measurement of any other state
CallClassifyAny(state) ==
  /\ inp.op = "none"
  /\ inp' = [op |-> "classify", state_type |-> "", state |-> state,
             out |-> bell_state_measurement(state)]
  /\ UNCHANGED <<qezk, rng, random_seed, pc, args, frame, ret, log, mlog, ref, sess, other, heap, mq, cache, net, conn, dist>>

NextBell ==
  \/ \E ty \in StateTypes : CallCreate(ty)
  \/ CallClassify
  \/ \E st \in MeasureStates : CallClassifyAny(st)

SpecBell == InitMeasure /\ [][NextBell]_vars

\* the label bell_state_measurement has for a kind of create_bell_state
LabelOf(state_type) ==
  CASE state_type = "phi_plus" -> "Phi+"
    [] state_type = "phi_minus" -> "Phi-"
    [] state_type = "psi_plus" -> "Psi+"
    [] state_type = "psi_minus" -> "Psi-"

\* the eight unit phases among the amplitude numerators
UnitPhases ==
  {ROne, ROmega, RImag, <<0, 0, 0, 1>>,
   RNeg(ROne), RNeg(ROmega), RNeg(RImag), <<0, 0, 0, -1>>}

\* C21: for each of the four kinds, create_bell_state(kind) has norm 1 and
\* is, up to a global phase, the canonical Bell vector of that kind (squared
\* amplitude 1/2 on |00>,|11> for phi and on |01>,|10> for psi), and
\* bell_state_measurement of it returns the label of that kind with overlap 1
C21_BellStatesClassified ==
  (inp.op \in {"create", "classify"} /\ inp.state_type \in StateTypes) =>
    LET canon == CHOOSE b \in {bell_states[j] : j \in 1..Len(bell_states)} :
                   b.name = LabelOf(inp.state_type)
        on == IF inp.state_type \in {"phi_plus", "phi_minus"} THEN {1, 4} ELSE {2, 3}
    IN /\ ProbOver(inp.state, 1..4) = [p |-> Pow2(inp.state.k), q |-> 0, k |-> inp.state.k]
       /\ inp.state.k = canon.k
       /\ \E u \in UnitPhases :
            \A j \in 1..4 : inp.state.v[j] = RMul(u, canon.v[j])
       /\ \A j \in 1..4 :
            AbsSq(inp.state.v[j]) = [p |-> IF j \in on THEN 1 ELSE 0, q |-> 0]
       /\ inp.op = "classify" =>
            /\ inp.out.name = LabelOf(inp.state_type)
            /\ inp.out.prob = [p |-> Pow2(inp.out.prob.k), q |-> 0, k |-> inp.out.prob.k]

\* psi_minus has been created with a global phase other than 1 and has been
\* classified
C21_Witness ==
  /\ inp.op = "classify"
  /\ inp.state_type = "psi_minus"
  /\ inp.state # [v |-> bell_states[4].v, k |-> 1]
  /\ inp.out.name = "Psi-"

(***************************************************************************)
(* The CHSH value verify() can return (SpecVerify).                        *)
(***************************************************************************)
\* agreements minus disagreements of the two parties over the indices at
\* which verify() was given the basis b, and the number of those indices
VerifyBalance(b) ==
  Cardinality({i \in 1..Len(inp.measurement_bases) :
                 inp.measurement_bases[i] = b
                 /\ inp.prover_results[i] = inp.verifier_results[i]})
  - Cardinality({i \in 1..Len(inp.measurement_bases) :
                   inp.measurement_bases[i] = b
                   /\ inp.prover_results[i] # inp.verifier_results[i]})
VerifyCount(b) ==
  Cardinality({i \in 1..Len(inp.measurement_bases) : inp.measurement_bases[i] = b})

\* the mean of a cell, 0 without a sample
VerifyCell(b) ==
  IF VerifyCount(b) = 0 THEN Rat(0, 1)
  ELSE [num |-> VerifyBalance(b), den |-> VerifyCount(b)]

MeasureProb0(state, basis) ==
  CASE basis = "Z" -> Prob0(state)
    [] basis = "X" -> Prob0(KronGateI(x_basis, state))
    [] basis = "Y" -> Prob0(KronGateI(y_basis, state))

\* what apply_circuit makes of a state with the gate sequences of at most n
\* gates
RECURSIVE CircuitStates(_, _)
CircuitStates(state, n) ==
  IF n = 0 THEN {apply_circuit(state, <<>>)}
  ELSE LET shorter == CircuitStates(state, n - 1)
       IN shorter \cup {apply_circuit(st, <<gate_names[g]>>) :
                           st \in shorter, g \in 1..Len(gate_names)}

OddWitnesses ==
  {PyWit(w) : w \in {<<"1", "0", "1">>, <<"1", "2">>, <<"1", "1", "1", "2">>,
                     <<"+", "1">>, <<"-", "1">>, <<" ", "1">>, <<"1", "_", "1">>,
                     <<"0", "b", "1">>, <<"_", "1">>, <<"1", "+">>}}

\* prover_phase called directly on a fresh share
CallProverPhase(statement, witness, n) ==
  /\ pc = "idle"
  /\ inp.op = "none"
  /\ \E r \in {prover_phase(statement, witness, BellShare(n), rng)} :
        /\ rng' = r.rng
        /\ inp' = [op |-> "prover_phase", statement |-> statement,
                   witness |-> witness, before |-> rng, out |-> r]
  /\ UNCHANGED <<qezk, random_seed, pc, args, frame, ret, log, mlog, ref, sess, other, heap, mq, cache, net, conn, dist>>

\* the caller looks at the outcome of a direct call before it goes on
NextWitness ==
  \/ inp.op = "none" /\ \E s \in ThreadStatements, w \in OddWitnesses, sd \in ThreadSeeds :
                           Call(s, w, sd)
  \/ DoSetup
  \/ DoProverPhase
  \/ DoVerifierPhase
  \/ DoVerify
  \/ Finish
  \/ \E s \in ThreadStatements, w \in OddWitnesses, n \in 1..MaxPairs :
       CallProverPhase(s, w, n)

SpecWitness == Init /\ [][NextWitness]_vars

\* a character other than 0 and 1 somewhere in the witness
NonBinary(witness) ==
  \E j \in 1..Len(witness.val) : witness.val[j] \notin {"0", "1"}

\* a 3-character group of the witness that int(bits, 2) does not read
Unreadable(witness) ==
  \E g \in 1..NumGroups(witness.val) : IntRaises(WitnessGroup(witness.val, g))

\* C24 as stated: a witness with a character other than 0 or 1 makes
\* prover_phase and prove() raise ProtocolError and return no results; no
\* gate sequence is produced for it and no pair is measured
C24_NonBinaryRaises ==
  /\ (pc = "done" /\ NonBinary(args.witness))
       => /\ ret.kind = "raise"
          /\ ret.err = "ProtocolError"
          /\ mlog = <<>>
  /\ (inp.op = "prover_phase" /\ NonBinary(inp.witness))
       => /\ inp.out.err = "ProtocolError"
          /\ inp.out.results = <<>>
          /\ inp.out.rng = inp.before
          /\ witness_to_quantum_circuit(inp.witness.val).gates = <<>>

\* what holds instead: the error is raised for the witnesses with a group
\* that int(bits, 2) rejects; the others yield gates and are measured
C24_UnreadableRaises ==
  /\ (pc = "done" /\ Unreadable(args.witness))
       => /\ ret.kind = "raise"
          /\ ret.err = "ProtocolError"
          /\ mlog = <<>>
  /\ (pc = "done" /\ ~Unreadable(args.witness)) => ret.kind = "proof"
  /\ inp.op = "prover_phase"
       => IF Unreadable(inp.witness)
          THEN /\ inp.out.err = "ProtocolError"
               /\ inp.out.results = <<>>
               /\ inp.out.rng = inp.before
          ELSE /\ inp.out.err = "none"
               /\ Len(inp.out.results) > 0

(***************************************************************************)
(* VerificationCache and BatchVerifier.verify_single (SpecCache).  The     *)
(* worker threads of _verify_parallel run verify_single on one cache with  *)
(* no lock; a step is what a thread does between two possible switches.    *)
(***************************************************************************)
MaxCache == 2

KeyPrefix == 10

CThreads == {1, 2}

\* the proofs handed to the verifier: two that agree on the first KeyPrefix
\* entries of every sequence and differ after them, and three short ones
LongProof(last) ==
  [statement |-> "A",
   prover_results |-> [i \in 1..(KeyPrefix + 1) |-> 0],
   verifier_results |-> [i \in 1..(KeyPrefix + 1) |-> IF i <= KeyPrefix THEN 0 ELSE last],
   measurement_bases |-> [i \in 1..(KeyPrefix + 1) |-> "Z"]]

CacheProofs ==
  {LongProof(0), LongProof(1),
   [statement |-> "A", prover_results |-> <<0>>, verifier_results |-> <<0>>,
    measurement_bases |-> <<"Z">>],
   [statement |-> "1", prover_results |-> <<0>>, verifier_results |-> <<0>>,
    measurement_bases |-> <<"Z">>],
   [statement |-> "1", prover_results |-> <<0>>, verifier_results |-> <<2>>,
    measurement_bases |-> <<"Z">>]}

\* VerificationCache._cache_key: the statement and the first ten entries of
\* each sequence (hash() of the tuple taken as free of collisions)
cache_key(proof) ==
  << proof.statement,
     SubSeq(proof.prover_results, 1, Min(KeyPrefix, Len(proof.prover_results))),
     SubSeq(proof.verifier_results, 1, Min(KeyPrefix, Len(proof.verifier_results))),
     SubSeq(proof.measurement_bases, 1, Min(KeyPrefix, Len(proof.measurement_bases))) >>

\* key in self.cache, self.cache[key]
InCache(entries, key) == \E i \in 1..Len(entries) : entries[i].key = key
CacheAt(entries, key) ==
  entries[CHOOSE i \in 1..Len(entries) : entries[i].key = key].val

IdleWorker == [pc |-> "idle", proof |-> LongProof(0), val |-> [err |-> "none"],
               victim |-> <<>>, out |-> [err |-> "none"]]

\* VerificationCache(max_size) inside a BatchVerifier with its workers
VerificationCache(max_size) ==
  [entries |-> <<>>, max_size |-> max_size,
   th |-> [t \in CThreads |-> IdleWorker], overlap |-> FALSE]

\* the statements of set() a worker is at
InSet(w) == w.pc \in {"set_check", "set_pick", "set_pop", "set_store"}

\* a worker is handed verify_single(proof)
VsCall(t, proof) ==
  /\ cache.th[t].pc \in {"idle", "returned", "raised"}
  /\ cache' = [cache EXCEPT !.th[t] = [IdleWorker EXCEPT !.pc = "get", !.proof = proof]]
  /\ UNCHANGED <<qezk, rng, random_seed, pc, args, frame, ret, log, mlog, ref, sess, inp, other, heap, mq, net, conn, dist>>

\* cached = self.cache.get(proof); a hit is returned
VsGet(t) ==
  /\ cache.th[t].pc = "get"
  /\ cache' = IF InCache(cache.entries, cache_key(cache.th[t].proof))
              THEN [cache EXCEPT !.th[t].pc = "returned",
                                 !.th[t].out = CacheAt(cache.entries,
                                                       cache_key(cache.th[t].proof))]
              ELSE [cache EXCEPT !.th[t].pc = "verify"]
  /\ UNCHANGED <<qezk, rng, random_seed, pc, args, frame, ret, log, mlog, ref, sess, inp, other, heap, mq, net, conn, dist>>

\* self.qezk.verify(...); the worker then enters self.cache.set
VsVerify(t) ==
  /\ cache.th[t].pc = "verify"
  /\ \E r \in {verify(qezk, cache.th[t].proof.prover_results,
                     cache.th[t].proof.verifier_results,
                     cache.th[t].proof.measurement_bases)} :
        cache' = IF r.err # "none"
                 THEN [cache EXCEPT !.th[t].pc = "raised", !.th[t].out = r]
                 ELSE [cache EXCEPT !.th[t].pc = "set_check", !.th[t].val = r,
                                    !.overlap = @ \/ \E u \in CThreads \ {t} :
                                                       InSet(cache.th[u])]
  /\ UNCHANGED <<qezk, rng, random_seed, pc, args, frame, ret, log, mlog, ref, sess, inp, other, heap, mq, net, conn, dist>>

\* if len(self.cache) >= self.max_size
SetCheck(t) ==
  /\ cache.th[t].pc = "set_check"
  /\ cache' = [cache EXCEPT !.th[t].pc = IF Len(cache.entries) >= cache.max_size
                                         THEN "set_pick" ELSE "set_store"]
  /\ UNCHANGED <<qezk, rng, random_seed, pc, args, frame, ret, log, mlog, ref, sess, inp, other, heap, mq, net, conn, dist>>

\* next(iter(self.cache)): the first key, StopIteration on an empty dict
SetPick(t) ==
  /\ cache.th[t].pc = "set_pick"
  /\ cache' = IF cache.entries = <<>>
              THEN [cache EXCEPT !.th[t].pc = "raised",
                                 !.th[t].out = [err |-> "StopIteration"]]
              ELSE [cache EXCEPT !.th[t].pc = "set_pop",
                                 !.th[t].victim = cache.entries[1].key]
  /\ UNCHANGED <<qezk, rng, random_seed, pc, args, frame, ret, log, mlog, ref, sess, inp, other, heap, mq, net, conn, dist>>

\* self.cache.pop(key): KeyError when the key is gone
SetPop(t) ==
  /\ cache.th[t].pc = "set_pop"
  /\ cache' = IF InCache(cache.entries, cache.th[t].victim)
              THEN [cache EXCEPT
                      !.th[t].pc = "set_store",
                      !.entries = SelectSeq(cache.entries,
                                            LAMBDA e : e.key # cache.th[t].victim)]
              ELSE [cache EXCEPT !.th[t].pc = "raised",
                                 !.th[t].out = [err |-> "KeyError"]]
  /\ UNCHANGED <<qezk, rng, random_seed, pc, args, frame, ret, log, mlog, ref, sess, inp, other, heap, mq, net, conn, dist>>

\* self.cache[key] = (is_valid, chsh_value); verify_single returns the pair
SetStore(t, key) ==
  /\ cache.th[t].pc = "set_store"
  /\ key = cache_key(cache.th[t].proof)
  /\ cache' = [cache EXCEPT
                 !.th[t].pc = "returned",
                 !.th[t].out = cache.th[t].val,
                 !.entries = IF InCache(cache.entries, key)
                             THEN [i \in 1..Len(cache.entries) |->
                                     IF cache.entries[i].key = key
                                     THEN [key |-> key, val |-> cache.th[t].val]
                                     ELSE cache.entries[i]]
                             ELSE Append(cache.entries,
                                         [key |-> key, val |-> cache.th[t].val])]
  /\ UNCHANGED <<qezk, rng, random_seed, pc, args, frame, ret, log, mlog, ref, sess, inp, other, heap, mq, net, conn, dist>>

InitCache ==
  /\ qezk = qezk_init(1, Rat(0, 1))
  /\ rng = 1
  /\ random_seed = PyNoneInt
  /\ pc = "idle"
  /\ args = NoArgs
  /\ frame = EmptyFrame
  /\ ret = NoRet
  /\ log = <<>>
  /\ mlog = <<>>
  /\ ref = NoRef
  /\ sess = NoSess
  /\ inp = NoInp
  /\ other = NoOther
  /\ heap = NoHeap
  /\ mq = NoMq
  /\ \E n \in 1..MaxCache : cache = VerificationCache(n)
  /\ net = NoNet
  /\ conn = NoConn
  /\ dist = NoDist

NextCache ==
  \E t \in CThreads :
     \/ \E proof \in CacheProofs : VsCall(t, proof)
     \/ VsGet(t)
     \/ VsVerify(t)
     \/ SetCheck(t)
     \/ SetPick(t)
     \/ SetPop(t)
     \/ SetStore(t, cache_key(cache.th[t].proof))

SpecCache == InitCache /\ [][NextCache]_vars

\* C25 as stated: the cache never holds more than max_size entries, also
\* when the set() calls of the worker threads interleave, and a set() on a
\* full cache completes, evicting the oldest entry
C25_CacheBounded ==
  /\ Len(cache.entries) <= cache.max_size
  /\ \A t \in CThreads :
       cache.th[t].pc = "raised" => cache.th[t].out.err = "VerificationError"

\* what holds instead: the bound holds, and set() completes, as long as no
\* two workers have been inside set() at the same time
C25_BoundedWithoutOverlap ==
  ~cache.overlap =>
    /\ Len(cache.entries) <= cache.max_size
    /\ \A t \in CThreads :
         cache.th[t].pc = "raised" => cache.th[t].out.err = "VerificationError"
    /\ \A t \in CThreads :
         cache.th[t].pc = "set_pop" => cache.th[t].victim = cache.entries[1].key

\* C26 as stated: verify_single(proof) with the cache enabled returns what
\* a direct verify() of the proof's results and bases returns, whatever was
\* verified before
C26_CacheTransparent ==
  \A t \in CThreads :
     cache.th[t].pc = "returned" =>
       \E d \in {verify(qezk, cache.th[t].proof.prover_results,
                        cache.th[t].proof.verifier_results,
                        cache.th[t].proof.measurement_bases)} :
          /\ d.err = "none"
          /\ cache.th[t].out.is_valid = d.is_valid
          /\ RatEq(cache.th[t].out.chsh_value, d.chsh_value)

\* what holds instead: the pair returned is that of a direct verify() of
\* some proof with the same statement and the same first ten entries of
\* each sequence
C26_VerdictOfSameKey ==
  \A t \in CThreads :
     cache.th[t].pc = "returned" =>
       \E p \in CacheProofs :
          /\ cache_key(p) = cache_key(cache.th[t].proof)
          /\ cache.th[t].out = verify(qezk, p.prover_results, p.verifier_results,
                                      p.measurement_bases)

(***************************************************************************)
(* QuantumNetwork: add_node, add_channel, remove_node (SpecNetwork).       *)
(* Nodes are added as fresh QuantumNode objects; a channel object is the   *)
(* record of its id and its two endpoints.                                 *)
(***************************************************************************)
MaxNeighbors == 2

NodeIds == {"a", "b", "c"}
\* the channels a caller adds: two between a and b, one onward to c, and
\* one from a to itself
Channels ==
  {[channel_id |-> "c1", node_a |-> "a", node_b |-> "b"],
   [channel_id |-> "c2", node_a |-> "b", node_b |-> "a"],
   [channel_id |-> "c1", node_a |-> "b", node_b |-> "c"],
   [channel_id |-> "c2", node_a |-> "a", node_b |-> "a"]}

\* QuantumNetwork(): an empty topology; last is how the last call ended
QuantumNetwork ==
  [nodes |-> {}, neighbors |-> [n \in NodeIds |-> <<>>],
   node_channels |-> [n \in NodeIds |-> {}], channels |-> {},
   routing_table |-> <<>>, last |-> [op |-> "none", found |-> FALSE, err |-> "none"]]

\* the inner loop of the BFS: the neighbours of the node taken off the queue
RECURSIVE BfsNeighbors(_, _, _, _)
BfsNeighbors(nbs, path, i, st) ==
  IF i > Len(nbs) THEN st
  ELSE IF nbs[i] \in st.visited THEN BfsNeighbors(nbs, path, i + 1, st)
  ELSE BfsNeighbors(nbs, path, i + 1,
         [visited |-> st.visited \cup {nbs[i]},
          table |-> (nbs[i] :> Append(path, nbs[i])) @@ st.table,
          queue |-> Append(st.queue, [node |-> nbs[i], path |-> Append(path, nbs[i])])])

\* while queue: self.topology.nodes[current] raises KeyError for an id that
\* is no node
RECURSIVE Bfs(_, _, _)
Bfs(nodes, neighbors, st) ==
  IF st.queue = <<>> THEN [err |-> "none", table |-> st.table]
  ELSE IF Head(st.queue).node \notin nodes THEN [err |-> "KeyError", table |-> st.table]
  ELSE Bfs(nodes, neighbors,
           BfsNeighbors(neighbors[Head(st.queue).node], Head(st.queue).path, 1,
                        [st EXCEPT !.queue = Tail(st.queue)]))

\* QuantumNetwork._update_routing_table on a topology: the table is
\* assigned at the end, so a KeyError leaves the old one
update_routing_table(topo, op) ==
  LET from(s) == Bfs(topo.nodes, topo.neighbors,
                     [visited |-> {s}, table |-> <<>>,
                      queue |-> <<[node |-> s, path |-> <<s>>]>>])
  IN IF \E s \in topo.nodes : from(s).err # "none"
     THEN [topo EXCEPT !.last = [op |-> op, found |-> TRUE, err |-> "KeyError"]]
     ELSE [topo EXCEPT !.routing_table = [s \in topo.nodes |-> from(s).table],
                       !.last = [op |-> op, found |-> TRUE, err |-> "none"]]

\* list.remove(x): the first occurrence goes
ListRemove(list, x) ==
  IF \A i \in 1..Len(list) : list[i] # x THEN list
  ELSE LET k == CHOOSE i \in 1..Len(list) :
                  list[i] = x /\ \A j \in 1..(i - 1) : list[j] # x
       IN SubSeq(list, 1, k - 1) \o SubSeq(list, k + 1, Len(list))

\* QuantumNetwork.add_node with a fresh QuantumNode
add_node(topo, node_id) ==
  IF node_id \in topo.nodes
  THEN [topo EXCEPT !.last = [op |-> "add_node", found |-> TRUE,
                              err |-> "ConfigurationError"]]
  ELSE update_routing_table(
         [topo EXCEPT !.nodes = @ \cup {node_id},
                      !.neighbors[node_id] = <<>>,
                      !.node_channels[node_id] = {}], "add_node")

\* QuantumNetwork.remove_node
remove_node(topo, node_id) ==
  IF node_id \notin topo.nodes
  THEN [topo EXCEPT !.last = [op |-> "remove_node", found |-> FALSE,
                              err |-> "ConfigurationError"]]
  ELSE update_routing_table(
         [topo EXCEPT
            !.channels = {ch \in @ : ch.node_a # node_id /\ ch.node_b # node_id},
            !.neighbors = [n \in NodeIds |->
                             IF n = node_id THEN <<>>
                             ELSE IF n \in topo.nodes
                             THEN ListRemove(topo.neighbors[n], node_id)
                             ELSE topo.neighbors[n]],
            !.node_channels[node_id] = {},
            !.nodes = @ \ {node_id}], "remove_node")

\* QuantumNetwork.add_channel
add_channel(topo, channel) ==
  IF \/ \E ch \in topo.channels : ch.channel_id = channel.channel_id
     \/ channel.node_a \notin topo.nodes
     \/ channel.node_b \notin topo.nodes
  THEN [topo EXCEPT !.last = [op |-> "add_channel", found |-> FALSE,
                              err |-> "ConfigurationError"]]
  ELSE LET nb1 == [topo.neighbors EXCEPT ![channel.node_a] = Append(@, channel.node_b)]
           nb2 == [nb1 EXCEPT ![channel.node_b] = Append(@, channel.node_a)]
           held(n) == {ch \in topo.node_channels[n] : ch.channel_id # channel.channel_id}
                        \cup {channel}
       IN update_routing_table(
            [topo EXCEPT
               !.channels = @ \cup {channel},
               !.neighbors = nb2,
               !.node_channels = [n \in NodeIds |->
                                    IF n \in {channel.node_a, channel.node_b}
                                    THEN held(n) ELSE topo.node_channels[n]]],
            "add_channel")

AddNode(node_id) ==
  /\ net' = add_node(net, node_id)
  /\ UNCHANGED <<qezk, rng, random_seed, pc, args, frame, ret, log, mlog, ref, sess, inp, other, heap, mq, cache, conn, dist>>

RemoveNode(node_id) ==
  /\ net' = remove_node(net, node_id)
  /\ UNCHANGED <<qezk, rng, random_seed, pc, args, frame, ret, log, mlog, ref, sess, inp, other, heap, mq, cache, conn, dist>>

\* the lists of neighbours stay within MaxNeighbors
AddChannel(channel) ==
  /\ Len(net.neighbors[channel.node_a]) < MaxNeighbors
  /\ Len(net.neighbors[channel.node_b]) < MaxNeighbors
  /\ channel.node_a = channel.node_b
       => Len(net.neighbors[channel.node_a]) + 2 <= MaxNeighbors
  /\ net' = add_channel(net, channel)
  /\ UNCHANGED <<qezk, rng, random_seed, pc, args, frame, ret, log, mlog, ref, sess, inp, other, heap, mq, cache, conn, dist>>

InitNetwork ==
  /\ qezk = qezk_init(1, DefaultThreshold)
  /\ rng = 1
  /\ random_seed = PyNoneInt
  /\ pc = "idle"
  /\ args = NoArgs
  /\ frame = EmptyFrame
  /\ ret = NoRet
  /\ log = <<>>
  /\ mlog = <<>>
  /\ ref = NoRef
  /\ sess = NoSess
  /\ inp = NoInp
  /\ other = NoOther
  /\ heap = NoHeap
  /\ mq = NoMq
  /\ cache = NoCache
  /\ net = QuantumNetwork
  /\ conn = NoConn
  /\ dist = NoDist

NextNetwork ==
  \/ \E n \in NodeIds : AddNode(n)
  \/ \E n \in NodeIds : RemoveNode(n)
  \/ \E channel \in Channels : AddChannel(channel)

SpecNetwork == InitNetwork /\ [][NextNetwork]_vars

\* every neighbour id, every endpoint of a channel of the topology or of a
\* node's channels map and every node on a routing path is a node
Intact(topo) ==
  /\ \A n \in topo.nodes : \A i \in 1..Len(topo.neighbors[n]) :
       topo.neighbors[n][i] \in topo.nodes
  /\ \A ch \in topo.channels : ch.node_a \in topo.nodes /\ ch.node_b \in topo.nodes
  /\ \A n \in topo.nodes : \A ch \in topo.node_channels[n] :
       ch.node_a \in topo.nodes /\ ch.node_b \in topo.nodes
  /\ \A s \in DOMAIN topo.routing_table :
       /\ s \in topo.nodes
       /\ \A d \in DOMAIN topo.routing_table[s] :
            \A i \in 1..Len(topo.routing_table[s][d]) :
               topo.routing_table[s][d][i] \in topo.nodes

\* C27 as stated: after any sequence of add_node, add_channel and
\* remove_node calls the topology is referentially intact, and remove_node
\* of an existing node never raises
C27_TopologyIntact ==
  /\ Intact(net)
  /\ (net.last.op = "remove_node" /\ net.last.found) => net.last.err = "none"

\* what holds instead: the channels of the topology keep their endpoints;
\* add_node and add_channel keep an intact topology intact, and so does
\* remove_node of a node that no other node has as a neighbour or as the
\* endpoint of a channel it holds
C27_IntactUntilRemoval ==
  [][/\ \A ch \in net'.channels : ch.node_a \in net'.nodes /\ ch.node_b \in net'.nodes
     /\ (Intact(net)
          /\ (net'.last.op = "remove_node" =>
                \A n \in net.nodes \ net'.nodes, m \in net'.nodes :
                   /\ \A i \in 1..Len(net.neighbors[m]) : net.neighbors[m][i] # n
                   /\ \A ch \in net.node_channels[m] : n \notin {ch.node_a, ch.node_b}))
         => (Intact(net') /\ net'.last.err \in {"none", "ConfigurationError"})]_vars

(***************************************************************************)
(* NetworkClient.process_queue (SpecClient).  The server is reachable      *)
(* ("up"), unreachable ("down": get_connection returns None) or accepts    *)
(* connections and fails every send ("failing": send_json returns False).  *)
(***************************************************************************)
MaxRounds == 2

\* the queued messages: two dicts with content and the empty dict
Messages == {"m1", "m2", "{}"}
Links == {"up", "down", "failing"}

\* a NetworkClient with messages queued by earlier send_message calls
NetworkClient(queue, link) ==
  [queue |-> queue, queued |-> <<>>, link |-> link, pc |-> "idle",
   message |-> "{}", taken |-> [m \in Messages |-> 0], sent |-> <<>>]

\* NetworkClient.send_message: what it leaves in the queue and on the wire
send_message(client, message) ==
  IF client.link = "up"
  THEN [client EXCEPT !.sent = Append(@, message)]
  ELSE [client EXCEPT !.queue = Append(@, message)]

\* a caller enters process_queue()
PqCall ==
  /\ conn.pc = "idle"
  /\ conn' = [conn EXCEPT !.pc = "loop", !.queued = conn.queue]
  /\ UNCHANGED <<qezk, rng, random_seed, pc, args, frame, ret, log, mlog, ref, sess, inp, other, heap, mq, cache, net, dist>>

\* while self.message_queue.size() > 0: message = self.message_queue.dequeue()
PqLoop ==
  /\ conn.pc = "loop"
  /\ conn.queue # <<>> => conn.taken[Head(conn.queue)] < MaxRounds
  /\ conn' = IF conn.queue = <<>>
             THEN [conn EXCEPT !.pc = "returned"]
             ELSE [conn EXCEPT !.pc = "dequeued",
                               !.message = Head(conn.queue),
                               !.queue = Tail(conn.queue),
                               !.taken[Head(conn.queue)] = @ + 1]
  /\ UNCHANGED <<qezk, rng, random_seed, pc, args, frame, ret, log, mlog, ref, sess, inp, other, heap, mq, cache, net, dist>>

\* if message: self.send_message(message)
PqSend ==
  /\ conn.pc = "dequeued"
  /\ conn' = IF conn.message = "{}"
             THEN [conn EXCEPT !.pc = "loop"]
             ELSE [send_message(conn, conn.message) EXCEPT !.pc = "loop"]
  /\ UNCHANGED <<qezk, rng, random_seed, pc, args, frame, ret, log, mlog, ref, sess, inp, other, heap, mq, cache, net, dist>>

InitClient ==
  /\ qezk = qezk_init(1, DefaultThreshold)
  /\ rng = 1
  /\ random_seed = PyNoneInt
  /\ pc = "idle"
  /\ args = NoArgs
  /\ frame = EmptyFrame
  /\ ret = NoRet
  /\ log = <<>>
  /\ mlog = <<>>
  /\ ref = NoRef
  /\ sess = NoSess
  /\ inp = NoInp
  /\ other = NoOther
  /\ heap = NoHeap
  /\ mq = NoMq
  /\ cache = NoCache
  /\ net = NoNet
  /\ \E q \in SeqsUpTo(Messages, MaxMsgs), l \in Links : conn = NetworkClient(q, l)
  /\ dist = NoDist

NextClient == PqCall \/ PqLoop \/ PqSend

SpecClient == InitClient /\ [][NextClient]_vars

Count(seq, m) == Cardinality({i \in 1..Len(seq) : seq[i] = m})

\* C28 as stated: in a process_queue() call each message that was queued
\* when the call began is dequeued at most once, whatever the state of
\* the connection
C28_EachMessageOnce ==
  \A m \in Messages : conn.taken[m] <= Count(conn.queued, m)

\* the case of C28 with the server reachable: every message is dequeued
\* once, the ones with content are sent in queue order, the call returns
C28_OnceWhenConnected ==
  conn.link = "up" =>
    /\ \A m \in Messages : conn.taken[m] <= Count(conn.queued, m)
    /\ conn.pc = "returned" =>
         /\ conn.queue = <<>>
         /\ conn.sent = SelectSeq(conn.queued, LAMBDA m : m # "{}")

\* what the loop does instead when no connection is obtained or the send
\* fails: the message goes back to the end of the queue being emptied,
\* so the call returns only with an empty queue
C28_UnsentIsRequeued ==
  [][(conn.pc = "dequeued" /\ conn.link # "up" /\ conn.message # "{}")
       => (conn'.pc = "loop" /\ conn'.queue = Append(conn.queue, conn.message))]_vars

C28_ReturnsOnlyWhenEmpty == conn.pc = "returned" => conn.queue = <<>>

C28_Returned == conn.pc = "returned" /\ conn.link = "up" /\ Len(conn.sent) = 2

(***************************************************************************)
(* SecureConnection.connect (SpecConnect).  The server is reachable or     *)
(* not, and answers a token message with the status in server.status.      *)
(***************************************************************************)
AuthTokens == {"None", "", "secret"}
Statuses == {"authenticated", "denied", "silent"}

ConnectionConfig(authentication_required, auth_token, keepalive) ==
  [authentication_required |-> authentication_required,
   auth_token |-> auth_token, keepalive |-> keepalive]

\* SecureConnection.__init__, with what the peer is and has seen
SecureConnection(config, server) ==
  [config |-> config, server |-> server, socket |-> FALSE,
   state |-> "disconnected", running |-> FALSE, pc |-> "idle",
   trace |-> <<"disconnected">>, wire |-> <<>>, result |-> "none"]

\* self.state = s
SetState(c, s) == [c EXCEPT !.state = s, !.trace = Append(@, s)]

\* SecureConnection.send / send_json: TRUE when the data went out
CanSend(c) == c.socket /\ c.state \in {"connected", "authenticated"}

send(c, data) == IF CanSend(c) THEN [c EXCEPT !.wire = Append(@, data)] ELSE c

\* SecureConnection.receive / receive_json: the server's answer to the
\* token it was sent, or None
receive_json(c) ==
  IF c.socket /\ c.state \in {"connected", "authenticated"}
     /\ c.wire # <<>> /\ c.server.status # "silent"
  THEN c.server.status
  ELSE "None"

\* SecureConnection.disconnect
disconnect(c) == SetState([c EXCEPT !.running = FALSE, !.socket = FALSE], "disconnected")

\* SecureConnection._authenticate: the connection after it, and its result
authenticate(c) ==
  LET c1 == SetState(c, "authenticating")
      c2 == send(c1, "auth")
      response == receive_json(c2)
  IN  IF c.config.auth_token \in {"None", ""}
      THEN [c |-> c1, ok |-> FALSE]
      ELSE IF response = "authenticated"
           THEN [c |-> SetState(c2, "authenticated"), ok |-> TRUE]
           ELSE [c |-> c2, ok |-> FALSE]

\* connect(): self.state = CONNECTING ... self.state = CONNECTED, or the
\* exception of socket.connect
ConnConnect ==
  /\ conn.pc = "idle"
  /\ conn' = IF conn.server.reachable
             THEN [SetState(SetState(conn, "connecting"), "connected")
                     EXCEPT !.socket = TRUE, !.pc = "connected"]
             ELSE [SetState(SetState(conn, "connecting"), "error")
                     EXCEPT !.pc = "done", !.result = "False"]
  /\ UNCHANGED <<qezk, rng, random_seed, pc, args, frame, ret, log, mlog, ref, sess, inp, other, heap, mq, cache, net, dist>>

\* connect(): if authentication_required: if not self._authenticate():
\* self.disconnect(); return False
ConnAuthenticate ==
  /\ conn.pc = "connected"
  /\ conn.config.authentication_required
  /\ LET a == authenticate(conn)
     IN  conn' = IF a.ok
                 THEN [a.c EXCEPT !.pc = "keepalive"]
                 ELSE [disconnect(a.c) EXCEPT !.pc = "done", !.result = "False"]
  /\ UNCHANGED <<qezk, rng, random_seed, pc, args, frame, ret, log, mlog, ref, sess, inp, other, heap, mq, cache, net, dist>>

\* connect(): if self.config.keepalive: self._start_keepalive(); return True
ConnReturn ==
  /\ conn.pc \in (IF conn.config.authentication_required
                   THEN {"keepalive"} ELSE {"connected"})
  /\ conn' = [conn EXCEPT !.running = conn.config.keepalive,
                          !.pc = "done", !.result = "True"]
  /\ UNCHANGED <<qezk, rng, random_seed, pc, args, frame, ret, log, mlog, ref, sess, inp, other, heap, mq, cache, net, dist>>

InitConnect ==
  /\ qezk = qezk_init(1, DefaultThreshold)
  /\ rng = 1
  /\ random_seed = PyNoneInt
  /\ pc = "idle"
  /\ args = NoArgs
  /\ frame = EmptyFrame
  /\ ret = NoRet
  /\ log = <<>>
  /\ mlog = <<>>
  /\ ref = NoRef
  /\ sess = NoSess
  /\ inp = NoInp
  /\ other = NoOther
  /\ heap = NoHeap
  /\ mq = NoMq
  /\ cache = NoCache
  /\ net = NoNet
  /\ \E required \in BOOLEAN, token \in AuthTokens, keepalive \in BOOLEAN,
        reachable \in BOOLEAN, status \in Statuses :
       conn = SecureConnection(ConnectionConfig(required, token, keepalive),
                               [reachable |-> reachable, status |-> status])
  /\ dist = NoDist

NextConnect == ConnConnect \/ ConnAuthenticate \/ ConnReturn

SpecConnect == InitConnect /\ [][NextConnect]_vars

AuthCase ==
  /\ conn.config.authentication_required
  /\ conn.config.auth_token = "secret"
  /\ conn.server.reachable
  /\ conn.server.status = "authenticated"

\* C29 as stated: with authentication required, a token configured and a
\* server that answers the token with 'authenticated', connect() sends the
\* token, ends in AUTHENTICATED through the five states in order and
\* returns True; a failed authentication returns False in DISCONNECTED
C29_ConnectAuthenticates ==
  conn.pc = "done" =>
    /\ AuthCase =>
         /\ conn.result = "True"
         /\ conn.state = "authenticated"
         /\ conn.wire = <<"auth">>
         /\ conn.trace = <<"disconnected", "connecting", "connected",
                           "authenticating", "authenticated">>
    /\ (conn.config.authentication_required /\ conn.server.reachable
        /\ conn.state # "authenticated")
         => (conn.result = "False" /\ conn.state = "disconnected")

\* what holds instead: with authentication required connect() never sends
\* the token and never authenticates; it returns False, in DISCONNECTED
\* when the server was reached and in ERROR when it was not
C29_AuthenticationAlwaysFails ==
  /\ conn.wire = <<>>
  /\ conn.state # "authenticated"
  /\ (conn.pc = "done" /\ conn.config.authentication_required) =>
       /\ conn.result = "False"
       /\ conn.state = IF conn.server.reachable THEN "disconnected" ELSE "error"
       /\ conn.server.reachable =>
            conn.trace = <<"disconnected", "connecting", "connected",
                           "authenticating", "disconnected">>
  /\ (conn.pc = "done" /\ ~conn.config.authentication_required) =>
       (conn.result = "True") = conn.server.reachable

C29_AuthCaseDone == conn.pc = "done" /\ AuthCase

(***************************************************************************)
(* DistributedVerifier and DistributedProver (SpecDistributed).  As in the *)
(* repository's test both run in one process on one protocol object; the   *)
(* prover serves one connection, of a DistributedVerifier or of another    *)
(* client that writes ProtocolMessages of its own.                         *)
(***************************************************************************)
MaxRequests == 2

\* ProtocolMessage.create; message ids and timestamps are left out
ProtocolMessage(message_type, data) == [message_type |-> message_type, data |-> data]

\* message.data.get(key)
DataGet(data, key, none) == IF key \in DOMAIN data THEN data[key] ELSE none

\* the value of `a > b` and of `x and y` on numpy operands
NumpyBool(b) == [type |-> "numpy.bool_", val |-> b]

\* ProtocolMessage.to_json: json.dumps raises TypeError on a numpy.bool_
ToJsonRaises(message) ==
  /\ "is_valid" \in DOMAIN message.data
  /\ message.data.is_valid.type = "numpy.bool_"

ErrorMessage(e) == ProtocolMessage("error", [error |-> e])

\* the arguments _handle_setup_request reads from the message
SetupArgs(message) ==
  [statement |-> DataGet(message.data, "statement", PyNoneStr),
   witness |-> DataGet(message.data, "witness", PyNoneWit),
   seed |-> DataGet(message.data, "seed", PyNoneInt)]

\* DistributedProver._handle_setup_request: the answer and the generator
\* after it; r1 is what self.qezk.setup(seed) gives, r2 what
\* self.qezk.prover_phase(statement, witness, prover_particles) gives after it
handle_setup_request(a, r1, r2, seeded, s) ==
  IF a.statement.type = "NoneType" \/ a.statement.val = ""
     \/ a.witness.type = "NoneType" \/ a.witness.val = <<>>
  THEN [response |-> ErrorMessage("ProtocolError"), kept |-> FALSE,
        random_seed |-> seeded, rng |-> s]
  ELSE IF r1.err # "none"
  THEN [response |-> ErrorMessage(r1.err), kept |-> TRUE,
        random_seed |-> r1.random_seed, rng |-> r1.rng]
  ELSE IF r2.err # "none"
  THEN [response |-> ErrorMessage(r2.err), kept |-> TRUE,
        random_seed |-> r1.random_seed, rng |-> r2.rng]
  ELSE [response |-> ProtocolMessage("prover_results",
                       [prover_results |-> r2.results,
                        measurement_bases |-> r2.bases,
                        statement |-> a.statement]),
        kept |-> TRUE, random_seed |-> r1.random_seed, rng |-> r2.rng]

\* the arguments _handle_verification_request reads from the message
VerificationArgs(message) ==
  [prover_results |-> DataGet(message.data, "prover_results", <<>>),
   verifier_results |-> DataGet(message.data, "verifier_results", <<>>),
   measurement_bases |-> DataGet(message.data, "measurement_bases", <<>>)]

\* DistributedProver._handle_verification_request; r is what
\* self.qezk.verify(prover_results, verifier_results, measurement_bases) gives
handle_verification_request(a, r, current_statement) ==
  IF a.prover_results = <<>> \/ a.verifier_results = <<>> \/ a.measurement_bases = <<>>
  THEN ErrorMessage("ProtocolError")
  ELSE IF r.err # "none" THEN ErrorMessage(r.err)
  ELSE ProtocolMessage("verification_response",
         [is_valid |-> NumpyBool(r.is_valid), chsh_value |-> r.chsh_value,
          statement |-> current_statement])

\* DistributedProver._process_message, given the answers of the two handlers
process_message(message, setup_answer, verification_answer, seeded, s) ==
  IF message.message_type = "setup_request" THEN setup_answer
  ELSE [response |-> IF message.message_type = "verification_request"
                     THEN verification_answer
                     ELSE IF message.message_type = "heartbeat"
                     THEN ProtocolMessage("heartbeat", [none |-> TRUE])
                     ELSE ErrorMessage("Unknown message type"),
        kept |-> FALSE, random_seed |-> seeded, rng |-> s]

\* a DistributedVerifier, a started DistributedProver and the connection
Distributed(client, connected) ==
  [client |-> client, connected |-> connected, open |-> TRUE,
   vpc |-> "idle", statement |-> PyNoneStr, seed |-> PyNoneInt,
   prover_results |-> <<>>, verifier_results |-> <<>>, measurement_bases |-> <<>>,
   result |-> [kind |-> "none", proof |-> NoProof],
   to_prover |-> <<>>, to_verifier |-> <<>>, exchange |-> <<>>, asked |-> <<>>,
   current_statement |-> PyNoneStr, current_witness |-> PyNoneWit]

\* verify_statement: connect if needed, Step 1: send the setup request
VerifyStatement(statement, seed) ==
  /\ dist.client = "verifier"
  /\ dist.vpc = "idle"
  /\ dist' = [dist EXCEPT
       !.connected = TRUE, !.statement = statement, !.seed = seed,
       !.vpc = "prover_response",
       !.to_prover = Append(@, ProtocolMessage("setup_request",
                                [statement |-> statement, seed |-> seed])),
       !.exchange = Append(@, "setup_request")]
  /\ UNCHANGED <<qezk, rng, random_seed, pc, args, frame, ret, log, mlog, ref, sess, inp, other, heap, mq, cache, net, conn>>

\* _handle_verifier: recv, _process_message, _send_message; an exception of
\* to_json closes the client socket
ProverHandle ==
  /\ dist.open
  /\ dist.to_prover # <<>>
  /\ \E message \in {Head(dist.to_prover)} :
     \E sa \in {SetupArgs(message)}, va \in {VerificationArgs(message)} :
     \E r1 \in {setup(qezk, sa.seed, random_seed, rng)} :
     \E r2 \in {prover_phase(sa.statement, sa.witness, r1.particles, r1.rng)} :
     \E v \in {verify(qezk, va.prover_results, va.verifier_results, va.measurement_bases)} :
     \E r \in {process_message(message,
                  handle_setup_request(sa, r1, r2, random_seed, rng),
                  handle_verification_request(va, v, dist.current_statement),
                  random_seed, rng)} :
       /\ rng' = r.rng
       /\ random_seed' = r.random_seed
       /\ dist' = [dist EXCEPT
            !.to_prover = Tail(@),
            !.asked = Append(@, message),
            !.current_statement = IF r.kept THEN sa.statement ELSE @,
            !.current_witness = IF r.kept THEN sa.witness ELSE @,
            !.open = ~ToJsonRaises(r.response),
            !.to_verifier = IF ToJsonRaises(r.response) THEN @
                            ELSE Append(@, r.response),
            !.exchange = IF ToJsonRaises(r.response) THEN @
                         ELSE Append(@, r.response.message_type)]
  /\ UNCHANGED <<qezk, pc, args, frame, ret, log, mlog, ref, sess, inp, other, heap, mq, cache, net, conn>>

\* verify_statement after a _receive_message: Steps 2 to 4 after the first,
\* Step 5 and the Proof after the second; None is received from a closed socket
VerifierReceive ==
  /\ dist.client = "verifier"
  /\ dist.vpc \in {"prover_response", "verification_response"}
  /\ dist.to_verifier # <<>> \/ ~dist.open
  /\ LET none == dist.to_verifier = <<>>
         response == IF none THEN ErrorMessage("None") ELSE Head(dist.to_verifier)
         got == [dist EXCEPT !.to_verifier = IF none THEN @ ELSE Tail(@)]
         None == [got EXCEPT !.vpc = "done",
                             !.result = [kind |-> "None", proof |-> NoProof]]
         r1 == setup(qezk, dist.seed, random_seed, rng)
         r3 == verifier_phase(dist.statement, split_epr_pairs(r1.particles)[2],
                              response.data.measurement_bases, r1.rng)
     IN  IF none \/ response.message_type = "error"
         THEN dist' = None /\ UNCHANGED <<rng, random_seed>>
         ELSE IF dist.vpc = "prover_response"
         THEN IF ~({"prover_results", "measurement_bases"} \subseteq DOMAIN response.data)
              THEN dist' = None /\ UNCHANGED <<rng, random_seed>>
              ELSE IF r1.err # "none"
              THEN dist' = None /\ rng' = r1.rng /\ random_seed' = r1.random_seed
              ELSE IF r3.err # "none"
              THEN dist' = None /\ rng' = r3.rng /\ random_seed' = r1.random_seed
              ELSE /\ rng' = r3.rng
                   /\ random_seed' = r1.random_seed
                   /\ dist' = [got EXCEPT
                        !.vpc = "verification_response",
                        !.prover_results = response.data.prover_results,
                        !.measurement_bases = response.data.measurement_bases,
                        !.verifier_results = r3.results,
                        !.to_prover = Append(@, ProtocolMessage("verification_request",
                             [prover_results |-> response.data.prover_results,
                              verifier_results |-> r3.results,
                              measurement_bases |-> response.data.measurement_bases])),
                        !.exchange = Append(@, "verification_request")]
         ELSE /\ UNCHANGED <<rng, random_seed>>
              /\ IF ~({"chsh_value", "is_valid"} \subseteq DOMAIN response.data)
                 THEN dist' = None
                 ELSE dist' = [got EXCEPT
                        !.vpc = "done",
                        !.result = [kind |-> "proof",
                                    proof |-> QEZKProof(dist.prover_results,
                                                dist.verifier_results,
                                                dist.measurement_bases,
                                                response.data.chsh_value,
                                                response.data.is_valid.val,
                                                dist.statement.val)]]
  /\ UNCHANGED <<qezk, pc, args, frame, ret, log, mlog, ref, sess, inp, other, heap, mq, cache, net, conn>>

\* the messages another client writes to the prover's socket
ClientMessages ==
  {ProtocolMessage("setup_request", [statement |-> s, witness |-> w, seed |-> d]) :
     s \in {PyStr("A"), PyStr("")}, w \in {PyWit(<<"1">>), PyWit(<<>>)},
     d \in {PyNoneInt, PyInt(1)}}
  \cup {ProtocolMessage("setup_request", [statement |-> PyStr("A"), seed |-> PyInt(1)])}
  \cup {ProtocolMessage("verification_request",
          [prover_results |-> p, verifier_results |-> v, measurement_bases |-> <<"Z">>]) :
          p \in {<<0>>, <<1>>, <<>>}, v \in {<<0>>, <<1>>}}
  \cup {ProtocolMessage("heartbeat", [none |-> TRUE]),
        ProtocolMessage("setup_response", [none |-> TRUE])}

ClientSend(message) ==
  /\ dist.client = "other"
  /\ dist.open
  /\ dist.to_prover = <<>>
  /\ Len(dist.exchange) < 2 * MaxRequests
  /\ dist' = [dist EXCEPT !.to_prover = Append(@, message),
                          !.exchange = Append(@, message.message_type)]
  /\ UNCHANGED <<qezk, rng, random_seed, pc, args, frame, ret, log, mlog, ref, sess, inp, other, heap, mq, cache, net, conn>>

InitDistributed ==
  /\ \E n \in 1..2, t \in {Rat(0, 1), DefaultThreshold} : qezk = qezk_init(n, t)
  /\ rng = 1
  /\ random_seed = PyNoneInt
  /\ pc = "idle"
  /\ args = NoArgs
  /\ frame = EmptyFrame
  /\ ret = NoRet
  /\ log = <<>>
  /\ mlog = <<>>
  /\ ref = NoRef
  /\ sess = NoSess
  /\ inp = NoInp
  /\ other = NoOther
  /\ heap = NoHeap
  /\ mq = NoMq
  /\ cache = NoCache
  /\ net = NoNet
  /\ conn = NoConn
  /\ \E client \in {"verifier", "other"}, connected \in BOOLEAN :
       dist = Distributed(client, connected)

NextDistributed ==
  \/ \E statement \in {PyStr("A"), PyStr("1")}, seed \in {PyNoneInt, PyInt(1), PyInt(2)} :
       VerifyStatement(statement, seed)
  \/ ProverHandle
  \/ VerifierReceive
  \/ \E message \in ClientMessages : ClientSend(message)

SpecDistributed == InitDistributed /\ [][NextDistributed]_vars

\* C30 as stated: a verify_statement call that has returned went through
\* the four messages in order and returned a Proof with the verdict of the
\* prover's VERIFICATION_RESPONSE; the prover's answer to the verifier's
\* SETUP_REQUEST is PROVER_RESULTS and not ERROR
C30_ExchangeCompletes ==
  dist.client = "verifier" =>
    /\ (Len(dist.exchange) >= 2 => dist.exchange[2] = "prover_results")
    /\ dist.vpc = "done" =>
         /\ dist.exchange = <<"setup_request", "prover_results",
                              "verification_request", "verification_response">>
         /\ dist.result.kind = "proof"

\* what holds instead: the verifier's SETUP_REQUEST carries no witness, the
\* prover answers it with ERROR and verify_statement returns None
C30_ProverAnswersError ==
  dist.client = "verifier" =>
    /\ dist.exchange \in {<<>>, <<"setup_request">>, <<"setup_request", "error">>}
    /\ dist.vpc = "done" =>
         (dist.exchange = <<"setup_request", "error">> /\ dist.result.kind = "None")

\* the prover answers PROVER_RESULTS exactly to a SETUP_REQUEST with a
\* statement and a witness its prover phase accepts, and no
\* VERIFICATION_RESPONSE ever reaches a client
C30_ResultsNeedWitness ==
  /\ \A i \in 1..Len(dist.to_verifier) :
       dist.to_verifier[i].message_type # "verification_response"
  /\ \A i \in 1..Len(dist.asked) :
       (dist.open /\ i <= Len(dist.to_verifier)
        /\ dist.to_verifier[i].message_type = "prover_results")
         => /\ dist.asked[i].message_type = "setup_request"
            /\ "witness" \in DOMAIN dist.asked[i].data
            /\ dist.asked[i].data.witness.val # <<>>

C30_VerifierDone == dist.client = "verifier" /\ dist.vpc = "done"

====
